---- MODULE Spec2Model ----
(***************************************************************************)
(* Bot-bac: the in-process TTL cache (cache_manager.py), the rate limiter  *)
(* (rate_limiter.py) and the scoring service that uses the cache           *)
(* (user_manager.py, database.py, badge_manager.py).                       *)
(*                                                                         *)
(* Time: time.time() is a float number of seconds.  The model counts time  *)
(* in ticks of 1/TicksPerSecond second, so that calls can fall strictly    *)
(* between two whole seconds.                                              *)
(***************************************************************************)
EXTENDS Integers, Sequences, FiniteSets, TLC

VARIABLES
    now,              \* time.time(), in ticks
    clock_steps,      \* number of clock advances so far (bounds the run)
    calls,            \* number of limiter calls so far (bounds the run)
    user_requests,    \* RateLimiter.user_requests: user_id -> (last, count, window_start)
    global_requests,  \* RateLimiter.global_requests: command -> (last_time, count)
    last_call,        \* the last limiter call and what it returned
    ref,              \* history: reference windows kept beside the limiter
    cache,            \* global_cache.cache: key -> (value, expiry)
    cache_writes,     \* history: per key, the last set not yet deleted or cleared
    user_scores,      \* table user_scores: user_id -> correct, total, stars
    user_streaks,     \* table user_streaks: user_id -> streak row
    db_version,       \* history: number of scoring writes made to user_scores
    last_op,          \* the last cache or scoring operation and what it returned
    user_grades,      \* table user_grades, as a bag of rows
    request,          \* the update_user_answer call in progress, statement by statement
    quiz_sessions,    \* BotState.quiz_sessions: group_id -> session
    active_polls,     \* BotState.active_polls: poll id -> group, number, correct option
    group_scores,     \* BotState.group_scores: group_id -> (user_id -> score)
    active_groups,    \* BotState.active_groups
    awaiting,         \* coroutines suspended at an await on the Telegram API
    tasks,            \* delayed tasks made by asyncio.create_task, still asleep
    quiz_log,         \* history: the last quiz step and the polls sent per session
    user_challenges,  \* table user_challenges: id -> challenge row
    challenge_results, \* table challenge_results: (challenge, user) -> progress
    challenge_log,    \* history: the last ChallengeManager call and its result
    retry_call,       \* one call of a retry_on_network_error wrapper
    message_buffer,   \* NetworkManager.message_buffer
    buffer_pass,      \* the process_buffer coroutine in progress, if any
    net_log           \* history: sends attempted per buffered message

rate_vars == <<user_requests, global_requests, last_call, ref>>

cache_vars == <<cache, cache_writes, user_scores, user_streaks, db_version,
                last_op, user_grades, request>>

quiz_vars == <<quiz_sessions, active_polls, group_scores, active_groups,
               awaiting, tasks, quiz_log>>

\* The variables of the parts of the bot that neither the limiter nor the
\* cache touches.
challenge_vars == <<user_challenges, challenge_results, challenge_log>>

net_vars == <<retry_call, message_buffer, buffer_pass, net_log>>

ext_vars == <<quiz_vars, challenge_vars, net_vars>>

vars == <<now, clock_steps, calls, user_requests, global_requests,
          last_call, ref, cache, cache_writes, user_scores, user_streaks,
          db_version, last_op, user_grades, request, quiz_sessions,
          active_polls, group_scores, active_groups, awaiting, tasks,
          quiz_log, user_challenges, challenge_results, challenge_log,
          retry_call, message_buffer, buffer_pass, net_log>>

----------------------------------------------------------------------------
(* Bounds of the model *)

TicksPerSecond == 2
MaxClockSteps == 2
MaxCalls == 7

RateUsers == {1}

\* Commands called when cleanup_expired is compared with no cleanup.
CleanupUserCommands == {"quiz_now", "ranking"}
CleanupGlobalCommands == {"poll_creation"}

\* Users whose handlers share the global limit, and the number of calls
\* made when the global limit is followed.
GlobalUsers == {1, 2}
MaxGlobalCalls == 5

\* Commands exercised: 'quiz_now' has a user and a global limit, 'ranking'
\* a user limit only, 'poll_creation' a global limit only, 'help' none.
UserCheckCommands == {"quiz_now", "ranking", "help"}
GlobalCheckCommands == {"poll_creation", "help"}
WrappedCommands == {"quiz_now"}

\* Whole-second sleeps of a caller: the length of the user window.
SleepSeconds == {60}

MaxCacheOps == 3
MaxCacheClockSteps == 1
MaxAnswers == 2

\* Answer events: (user_id, is_correct).
AnswerEvents == {<<1, TRUE>>, <<1, FALSE>>, <<2, TRUE>>}

\* Arguments of the get_ranking_paginated calls, and the keys, values and
\* ttl arguments of the direct cache calls.
RankingRequests ==
    {[page |-> 1, per_page |-> 20, group_only |-> FALSE],
     [page |-> 2, per_page |-> 1, group_only |-> TRUE]}
SetCalls ==
    {[key |-> <<"recent_activity">>, value |-> 5, ttl |-> << >>],
     [key |-> <<"recent_activity">>, value |-> 10, ttl |-> <<1>>],
     [key |-> <<"ranking", "legacy">>, value |-> 0, ttl |-> <<1>>]}
GetKeys == {<<"recent_activity">>, <<"ranking", "legacy">>}
DirectValues == {0, 5}
DirectTtls == {<< >>, <<1>>}

\* Inputs of the cache-backed readers: the limits asked of the daily
\* leaderboard, what a function behind cache_result returns, and the
\* values Python counts as false stored directly under a key.
LeaderboardLimits == {10}
FunctionResults == {[t |-> "None"], [t |-> "int", v |-> 0],
                    [t |-> "int", v |-> 5]}
FalsyValues == {[t |-> "None"], [t |-> "int", v |-> 0],
                [t |-> "list", v |-> << >>]}
FalsyKey == <<"falsy">>
CachedCallKey == <<"", "func", "hash">>

----------------------------------------------------------------------------
(* rate_limiter.py *)

user_limits ==
    [quiz_now |-> <<5, 60>>, ranking |-> <<10, 60>>, stats |-> <<15, 60>>,
     menu |-> <<20, 60>>, badges |-> <<10, 60>>]

global_limits ==
    [quiz_now |-> <<2, 1>>, poll_creation |-> <<3, 1>>]

EmptyMap == [x \in {} |-> 0]

UserCleanupAge == 300
GlobalCleanupAge == 60

\* Seconds as ticks.
Secs(s) == s * TicksPerSecond

\* Python's int() of a float number of seconds given in ticks: truncation
\* towards zero.
PyInt(ticks) ==
    IF ticks >= 0 THEN ticks \div TicksPerSecond
    ELSE -((-ticks) \div TicksPerSecond)

\* math.ceil of a float number of seconds given in ticks.
Ceil(ticks) == -((-ticks) \div TicksPerSecond)

\* Mutant: a denied call is counted too.
user_window_check_counting_denials(reqs, key, lim, t) ==
    LET max_requests == lim[1]
        window == Secs(lim[2])
        fresh == [last_time |-> t, count |-> 1, window_start |-> t]
    IN  IF key \notin DOMAIN reqs
        THEN [allowed |-> TRUE, reset_time |-> 0, remaining |-> 0,
              reqs |-> [u \in DOMAIN reqs \cup {key} |->
                           IF u = key THEN fresh ELSE reqs[u]]]
        ELSE LET e == reqs[key] IN
             IF t - e.window_start >= window
             THEN [allowed |-> TRUE, reset_time |-> 0, remaining |-> 0,
                   reqs |-> [reqs EXCEPT ![key] = fresh]]
             ELSE [allowed |-> e.count < max_requests,
                   reset_time |-> IF e.count < max_requests THEN 0
                                  ELSE PyInt(e.window_start + window - t),
                   remaining |-> IF e.count < max_requests THEN 0
                                 ELSE e.window_start + window - t,
                   reqs |-> [reqs EXCEPT ![key] =
                       [last_time |-> t, count |-> e.count + 1,
                        window_start |-> e.window_start]]]

\* The fixed-window step of is_user_allowed on the table reqs for the entry
\* of key, under the limit lim = (max_requests, window seconds), at time t.
\* Returns the pair (allowed, reset_time) and the table afterwards;
\* remaining is the time left in the window when the call is denied.
user_window_check(reqs, key, lim, t) ==
    LET max_requests == lim[1]
        window == Secs(lim[2])
        fresh == [last_time |-> t, count |-> 1, window_start |-> t]
    IN  IF key \notin DOMAIN reqs
        THEN [allowed |-> TRUE, reset_time |-> 0, remaining |-> 0,
              reqs |-> [u \in DOMAIN reqs \cup {key} |->
                           IF u = key THEN fresh ELSE reqs[u]]]
        ELSE LET e == reqs[key] IN
             IF t - e.window_start >= window
             THEN [allowed |-> TRUE, reset_time |-> 0, remaining |-> 0,
                   reqs |-> [reqs EXCEPT ![key] = fresh]]
             ELSE IF e.count >= max_requests
             THEN [allowed |-> FALSE,
                   reset_time |-> PyInt(e.window_start + window - t),
                   remaining |-> e.window_start + window - t,
                   reqs |-> reqs]
             ELSE [allowed |-> TRUE, reset_time |-> 0, remaining |-> 0,
                   reqs |-> [reqs EXCEPT ![key] =
                       [last_time |-> t, count |-> e.count + 1,
                        window_start |-> e.window_start]]]

\* Mutant: a command missing from user_limits gets a default limit.
is_user_allowed_default(reqs, user_id, command, t) ==
    user_window_check(reqs, user_id,
        IF command \in DOMAIN user_limits THEN user_limits[command]
        ELSE <<5, 60>>, t)

\* RateLimiter.is_user_allowed(user_id, command) at time t: the table is
\* keyed by user_id alone.
is_user_allowed(reqs, user_id, command, t) ==
    IF command \notin DOMAIN user_limits
    THEN [allowed |-> TRUE, reset_time |-> 0, remaining |-> 0, reqs |-> reqs]
    ELSE user_window_check(reqs, user_id, user_limits[command], t)

\* Mutant: every admitted call restarts the global window (a sliding
\* window: last_time follows the last admitted call).
is_globally_allowed_sliding(reqs, command, t) ==
    IF command \notin DOMAIN global_limits
    THEN [allowed |-> TRUE, reset_time |-> 0, remaining |-> 0, reqs |-> reqs]
    ELSE
    LET max_requests == global_limits[command][1]
        window == Secs(global_limits[command][2])
    IN  IF command \notin DOMAIN reqs \/ t - reqs[command].last_time >= window
        THEN [allowed |-> TRUE, reset_time |-> 0, remaining |-> 0,
              reqs |-> [c \in DOMAIN reqs \cup {command} |->
                           IF c = command
                           THEN [last_time |-> t, count |-> 1]
                           ELSE reqs[c]]]
        ELSE IF reqs[command].count >= max_requests
        THEN [allowed |-> FALSE,
              reset_time |-> PyInt(reqs[command].last_time + window - t),
              remaining |-> reqs[command].last_time + window - t,
              reqs |-> reqs]
        ELSE [allowed |-> TRUE, reset_time |-> 0, remaining |-> 0,
              reqs |-> [reqs EXCEPT ![command] =
                  [last_time |-> t, count |-> reqs[command].count + 1]]]

\* RateLimiter.is_globally_allowed(command) at time t on the table reqs.
is_globally_allowed(reqs, command, t) ==
    IF command \notin DOMAIN global_limits
    THEN [allowed |-> TRUE, reset_time |-> 0, remaining |-> 0, reqs |-> reqs]
    ELSE
    LET max_requests == global_limits[command][1]
        window == Secs(global_limits[command][2])
        fresh == [last_time |-> t, count |-> 1]
    IN  IF command \notin DOMAIN reqs
        THEN [allowed |-> TRUE, reset_time |-> 0, remaining |-> 0,
              reqs |-> [c \in DOMAIN reqs \cup {command} |->
                           IF c = command THEN fresh ELSE reqs[c]]]
        ELSE LET e == reqs[command] IN
             IF t - e.last_time >= window
             THEN [allowed |-> TRUE, reset_time |-> 0, remaining |-> 0,
                   reqs |-> [reqs EXCEPT ![command] = fresh]]
             ELSE IF e.count >= max_requests
             THEN [allowed |-> FALSE,
                   reset_time |-> PyInt(e.last_time + window - t),
                   remaining |-> e.last_time + window - t,
                   reqs |-> reqs]
             ELSE [allowed |-> TRUE, reset_time |-> 0, remaining |-> 0,
                   reqs |-> [reqs EXCEPT ![command] =
                       [last_time |-> e.last_time, count |-> e.count + 1]]]

\* Mutant: the cleanup drops every user window, whatever its age.
rate_cleanup_users_all(reqs, t) ==
    [u \in {x \in DOMAIN reqs : ~(t - reqs[x].window_start >= 0)}
        |-> reqs[u]]

\* RateLimiter.cleanup_expired() at time t.
rate_cleanup_users(reqs, t) ==
    [u \in {x \in DOMAIN reqs : ~(t - reqs[x].window_start > Secs(UserCleanupAge))}
        |-> reqs[u]]

rate_cleanup_globals(reqs, t) ==
    [c \in {x \in DOMAIN reqs : ~(t - reqs[x].last_time > Secs(GlobalCleanupAge))}
        |-> reqs[c]]

--------------------------------------------------------------------------------------------------------------------------------------------------------------------------------------------------------------------------
(* cache_manager.py *)

\* Python values: None, an int, a list, or a result (a non-empty dict,
\* kept as a record with its own tag t).
None == [t |-> "None"]
IntVal(n) == [t |-> "int", v |-> n]
ListVal(seq) == [t |-> "list", v |-> seq]

\* The truth value Python gives to x in `if x:`.
Truthy(x) ==
    CASE x.t = "None" -> FALSE
      [] x.t = "int" -> x.v # 0
      [] x.t = "list" -> x.v # << >>
      [] OTHER -> TRUE

\* An optional int argument (ttl: int = None): << >> is None, <<n>> is n.
NoTtl == << >>

\* global_cache = CacheManager(default_ttl=300)
default_ttl == 300

Remove(f, k) == [x \in DOMAIN f \ {k} |-> f[x]]
Put(f, k, v) == [x \in DOMAIN f \cup {k} |-> IF x = k THEN v ELSE f[x]]

\* Mutant: an entry is still served at the instant of its expiry.
cache_get_until_expiry(c, key, t) ==
    IF key \in DOMAIN c
    THEN IF t <= c[key].expiry
         THEN [value |-> c[key].value, cache |-> c]
         ELSE [value |-> None, cache |-> Remove(c, key)]
    ELSE [value |-> None, cache |-> c]

\* Mutant: a get that finds its entry expired purges every expired entry.
cache_get_purge_all(c, key, t) ==
    IF key \in DOMAIN c
    THEN IF t < c[key].expiry
         THEN [value |-> c[key].value, cache |-> c]
         ELSE [value |-> None,
               cache |-> [k \in {x \in DOMAIN c : t < c[x].expiry} |-> c[k]]]
    ELSE [value |-> None, cache |-> c]

\* CacheManager.get(key) at time t: the value returned and the cache after.
cache_get(c, key, t) ==
    IF key \in DOMAIN c
    THEN IF t < c[key].expiry
         THEN [value |-> c[key].value, cache |-> c]
         ELSE [value |-> None, cache |-> Remove(c, key)]
    ELSE [value |-> None, cache |-> c]

\* Mutant: a set over an existing entry keeps the expiry of that entry.
cache_set_keep_expiry(c, key, value, ttl, t) ==
    LET seconds == IF ttl = NoTtl THEN default_ttl ELSE ttl[1]
    IN  Put(c, key, [value |-> value,
                     expiry |-> IF key \in DOMAIN c THEN c[key].expiry
                                ELSE t + Secs(seconds)])

\* CacheManager.set(key, value, ttl) at time t.
cache_set(c, key, value, ttl, t) ==
    LET seconds == IF ttl = NoTtl THEN default_ttl ELSE ttl[1]
    IN  Put(c, key, [value |-> value, expiry |-> t + Secs(seconds)])

\* Mutant: a delete that does not find its key empties the dictionary.
cache_delete_or_clear(c, key) ==
    IF key \in DOMAIN c THEN Remove(c, key) ELSE EmptyMap

\* CacheManager.delete(key)
cache_delete(c, key) == IF key \in DOMAIN c THEN Remove(c, key) ELSE c

\* CacheManager.clear()
cache_clear(c) == EmptyMap

\* Mutant: the cleanup keeps an entry at the instant of its expiry.
cache_cleanup_strictly_after(c, t) ==
    [k \in {x \in DOMAIN c : ~(t > c[x].expiry)} |-> c[k]]

\* CacheManager.cleanup_expired() at time t.
cache_cleanup_expired(c, t) ==
    [k \in {x \in DOMAIN c : ~(t >= c[x].expiry)} |-> c[k]]

\* The cache together with the history of its writes: C.cache is the
\* program's dictionary, C.writes remembers for each key the last set
\* (value, time, ttl in seconds) that no delete or clear has followed, and
\* the entry that set found in the dictionary and replaced, if any.
CGet(C, key, t) ==
    LET r == cache_get(C.cache, key, t)
    IN  [value |-> r.value, C |-> [cache |-> r.cache, writes |-> C.writes]]

CSet(C, key, value, ttl, t) ==
    [cache |-> cache_set(C.cache, key, value, ttl, t),
     writes |-> Put(C.writes, key,
                    [value |-> value, at |-> t,
                     ttl |-> IF ttl = NoTtl THEN default_ttl ELSE ttl[1],
                     replaced |-> IF key \in DOMAIN C.cache
                                  THEN <<C.cache[key]>> ELSE << >>])]

CDelete(C, key) ==
    [cache |-> cache_delete(C.cache, key),
     writes |-> IF key \in DOMAIN C.writes THEN Remove(C.writes, key)
                ELSE C.writes]

CClear(C) == [cache |-> cache_clear(C.cache), writes |-> EmptyMap]

----------------------------------------------------------------------------
(* database.py, streak_manager.py *)

\* POINTS_PER_CORRECT_ANSWER
POINTS_PER_CORRECT_ANSWER == 5

\* ORDER BY stars DESC, correct DESC; rows that tie keep the order of the
\* primary key user_id.
RankedBefore(scores, u, v) ==
    \/ scores[u].stars > scores[v].stars
    \/ /\ scores[u].stars = scores[v].stars
       /\ \/ scores[u].correct > scores[v].correct
          \/ scores[u].correct = scores[v].correct /\ u <= v

RECURSIVE OrderedRows(_, _)
OrderedRows(scores, S) ==
    IF S = {} THEN << >>
    ELSE LET first == CHOOSE u \in S : \A v \in S : RankedBefore(scores, u, v)
         IN  <<first>> \o OrderedRows(scores, S \ {first})

\* DatabaseManager.get_ranking_paginated(page, per_page, group_only)
db_get_ranking_paginated(scores, page, per_page, group_only) ==
    LET offset == (page - 1) * per_page
        rows == IF group_only
                THEN {u \in DOMAIN scores : scores[u].total > 0}
                ELSE DOMAIN scores
        total_count == Cardinality(rows)
        ordered == OrderedRows(scores, rows)
        last == IF offset + per_page < total_count
                THEN offset + per_page ELSE total_count
        slice == SubSeq(ordered, offset + 1, last)
        total_pages == (total_count + per_page - 1) \div per_page
    IN  [ranking |-> [i \in 1..Len(slice) |->
                         [user_id |-> slice[i], score |-> scores[slice[i]]]],
         pagination |->
             [current_page |-> page, per_page |-> per_page,
              total_pages |-> total_pages, total_count |-> total_count,
              has_next |-> page < total_pages, has_prev |-> page > 1]]

RECURSIVE SumOver(_, _, _)
SumOver(scores, S, field) ==
    IF S = {} THEN 0
    ELSE LET u == CHOOSE x \in S : TRUE
         IN  scores[u][field] + SumOver(scores, S \ {u}, field)

\* datetime.now().date() at time t, as a day number.
Today(t) == t \div Secs(24 * 60 * 60)

\* DatabaseManager.add_user_grade(user_id, question, is_correct,
\* stars_earned) at time t.  The table is kept as a bag of rows: a row is
\* (user_id, is_correct, stars_earned, day of answered_at) and maps to the
\* number of its copies; the row id, the question text and the time of day
\* are left out, no query of the model reads them.
add_user_grade(grades, user_id, is_correct, stars_earned, t) ==
    LET row == [user_id |-> user_id, is_correct |-> is_correct,
                stars_earned |-> stars_earned, day |-> Today(t)]
    IN  Put(grades, row,
            IF row \in DOMAIN grades THEN grades[row] + 1 ELSE 1)

\* StreakManager.update_user_streak(user_id, is_correct) on the table
\* streaks; last_correct_date is << >> for NULL and <<day>> for a date.
\* update_user_streak comparing the streak as it was before the answer
\* with the best streak.
update_user_streak_stale_best(streaks, user_id, is_correct, t) ==
    LET row == IF user_id \in DOMAIN streaks THEN streaks[user_id]
               ELSE [current_streak |-> 0, best_streak |-> 0,
                     last_correct_date |-> << >>, streak_broken_count |-> 0]
        today == Today(t)
        current == IF is_correct
                   THEN IF row.last_correct_date = <<today>>
                        THEN row.current_streak
                        ELSE IF row.last_correct_date = <<today - 1>>
                        THEN row.current_streak + 1
                        ELSE 1
                   ELSE 0
        best == IF is_correct /\ row.current_streak > row.best_streak
                THEN current ELSE row.best_streak
        broken == IF ~is_correct /\ row.current_streak > 0
                  THEN row.streak_broken_count + 1
                  ELSE row.streak_broken_count
    IN  Put(streaks, user_id,
            [current_streak |-> current, best_streak |-> best,
             last_correct_date |-> IF is_correct THEN <<today>> ELSE << >>,
             streak_broken_count |-> broken])

update_user_streak(streaks, user_id, is_correct, t) ==
    LET row == IF user_id \in DOMAIN streaks THEN streaks[user_id]
               ELSE [current_streak |-> 0, best_streak |-> 0,
                     last_correct_date |-> << >>, streak_broken_count |-> 0]
        today == Today(t)
        current == IF is_correct
                   THEN IF row.last_correct_date = <<today>>
                        THEN row.current_streak
                        ELSE IF row.last_correct_date = <<today - 1>>
                        THEN row.current_streak + 1
                        ELSE 1
                   ELSE 0
        best == IF is_correct /\ current > row.best_streak
                THEN current ELSE row.best_streak
        broken == IF ~is_correct /\ row.current_streak > 0
                  THEN row.streak_broken_count + 1
                  ELSE row.streak_broken_count
    IN  Put(streaks, user_id,
            [current_streak |-> current, best_streak |-> best,
             last_correct_date |-> IF is_correct THEN <<today>> ELSE << >>,
             streak_broken_count |-> broken])

----------------------------------------------------------------------------
(* user_manager.py, badge_manager.py *)

\* str() of the ints and bools that appear in cache keys.
StrOfInt(n) ==
    CASE n = 1 -> "1" [] n = 2 -> "2" [] n = 3 -> "3" [] n = 20 -> "20"

StrOfBool(b) == IF b THEN "True" ELSE "False"

\* A cache key is its text cut at the ':' separators.
\* f"ranking_page:{page}:{per_page}:{group_only}"
RankingPageKey(page, per_page, group_only) ==
    <<"ranking_page", StrOfInt(page), StrOfInt(per_page), StrOfBool(group_only)>>

GlobalStatsKey == <<"global_stats">>
ActivityKey == <<"recent_activity">>

\* key.startswith('ranking:'): the first part is exactly "ranking" and a
\* ':' follows it.
StartsWithRanking(key) == Len(key) >= 2 /\ key[1] = "ranking"

\* Mutant: a missing counter counts as 1.
OrOne(x) == IF x.t = "int" THEN x.v ELSE 1

\* The value of `x or 0` for a cached value x.
OrZero(x) == IF x.t = "int" THEN x.v ELSE 0

\* UserManager._invalidate_ranking_caches()
invalidate_ranking_caches(C) ==
    LET keys_to_delete == {k \in DOMAIN C.cache : StartsWithRanking(k)}
    IN  [cache |-> [k \in DOMAIN C.cache \ keys_to_delete |-> C.cache[k]],
         writes |-> [k \in DOMAIN C.writes \ keys_to_delete |-> C.writes[k]]]

\* Mutant: the thresholds of the adaptive TTL are inclusive.
adaptive_ttl_inclusive(recent_activity) ==
    IF recent_activity >= 10 THEN 30
    ELSE IF recent_activity >= 5 THEN 60
    ELSE 180

\* The adaptive TTL of get_ranking_paginated.
adaptive_ttl(recent_activity) ==
    IF recent_activity > 10 THEN 30
    ELSE IF recent_activity > 5 THEN 60
    ELSE 180

\* UserManager.get_ranking_paginated(page, per_page, group_only) at time t,
\* the store being at version ver: the result returned, whether it came
\* from the cache, and the cache afterwards.
get_ranking_paginated(C, scores, ver, page, per_page, group_only, t) ==
    LET cache_key == RankingPageKey(page, per_page, group_only)
        cached == CGet(C, cache_key, t)
    IN  IF cached.value # None
        THEN [ret |-> cached.value, hit |-> TRUE, C |-> cached.C]
        ELSE LET result == [t |-> "ranking", ver |-> ver,
                            result |-> db_get_ranking_paginated(
                                scores, page, per_page, group_only)]
                 activity == CGet(cached.C, ActivityKey, t)
                 ttl == adaptive_ttl(OrZero(activity.value))
             IN  [ret |-> result, hit |-> FALSE,
                  C |-> CSet(activity.C, cache_key, result, <<ttl>>, t)]

\* UserManager.get_global_stats() at time t.
get_global_stats(C, scores, ver, t) ==
    LET cached == CGet(C, GlobalStatsKey, t)
    IN  IF cached.value # None
        THEN [ret |-> cached.value, hit |-> TRUE, C |-> cached.C]
        ELSE LET S == DOMAIN scores
                 total_questions == SumOver(scores, S, "total")
                 total_correct == SumOver(scores, S, "correct")
                 stats ==
                     [t |-> "stats", ver |-> ver,
                      total_participants |-> Cardinality(S),
                      total_questions |-> total_questions,
                      total_correct |-> total_correct,
                      total_stars |-> SumOver(scores, S, "stars"),
                      global_percentage |->
                          IF S = {} THEN 0
                          ELSE (total_correct * 100) \div
                               (IF total_questions > 1 THEN total_questions
                                ELSE 1)]
             IN  [ret |-> stats, hit |-> FALSE,
                  C |-> CSet(cached.C, GlobalStatsKey, stats, <<120>>, t)]

\* BadgeManager.check_user_badges as far as the cache sees it: the
\* conditions _check_top_3 and _check_champion call get_ranking(3) and
\* get_ranking(1), that is get_ranking_paginated(1, limit, False).
check_user_badges(C, scores, ver, t) ==
    LET top3 == get_ranking_paginated(C, scores, ver, 1, 3, FALSE, t)
        champion == get_ranking_paginated(top3.C, scores, ver, 1, 1, FALSE, t)
    IN  champion.C

\* cache_result(cache_manager, key_prefix, ttl) around a function: one call
\* of the wrapper at time t, result being what the function returns when
\* the wrapper runs it.  The key is
\* f"{key_prefix}:{func.__name__}:{hash(...)}".
cache_result_wrapper(C, cache_key, result, ttl, t) ==
    LET cached_result == CGet(C, cache_key, t)
    IN  IF cached_result.value # None
        THEN [ret |-> cached_result.value, hit |-> TRUE, C |-> cached_result.C]
        ELSE [ret |-> result, hit |-> FALSE,
              C |-> CSet(cached_result.C, cache_key, result, ttl, t)]

\* user_grades rows of one user on one day, summed: the number of rows,
\* of correct rows, or of stars.
RECURSIVE GradeSum(_, _, _)
GradeSum(grades, R, what) ==
    IF R = {} THEN 0
    ELSE LET r == CHOOSE x \in R : TRUE
             w == CASE what = "questions" -> 1
                    [] what = "correct" -> IF r.is_correct THEN 1 ELSE 0
                    [] what = "stars" -> r.stars_earned
         IN  grades[r] * w + GradeSum(grades, R \ {r}, what)

\* ORDER BY stars_today DESC, correct_today DESC; groups that tie keep the
\* order of user_id.
RECURSIVE OrderedToday(_, _)
OrderedToday(today, S) ==
    IF S = {} THEN << >>
    ELSE LET first == CHOOSE u \in S : \A v \in S :
                 \/ today[u].stars > today[v].stars
                 \/ /\ today[u].stars = today[v].stars
                    /\ \/ today[u].correct > today[v].correct
                       \/ today[u].correct = today[v].correct /\ u <= v
         IN  <<today[first]>> \o OrderedToday(today, S \ {first})

\* The query and the loop of LeaderboardManager.get_daily_leaderboard: the
\* rows of today grouped by user, joined with user_scores, as a list.
daily_leaderboard_rows(scores, grades, limit, t) ==
    LET users == {u \in DOMAIN scores :
                     \E r \in DOMAIN grades :
                         r.user_id = u /\ r.day = Today(t)}
        rows(u) == {r \in DOMAIN grades :
                       r.user_id = u /\ r.day = Today(t)}
        today == [u \in users |->
                    LET questions == GradeSum(grades, rows(u), "questions")
                        correct == GradeSum(grades, rows(u), "correct")
                    IN  [user_id |-> u, questions |-> questions,
                         correct |-> correct,
                         stars |-> GradeSum(grades, rows(u), "stars"),
                         percentage |-> IF questions > 0
                                        THEN (correct * 100) \div questions
                                        ELSE 0]]
        ordered == OrderedToday(today, users)
    IN  ListVal(SubSeq(ordered, 1,
                       IF limit < Len(ordered) THEN limit ELSE Len(ordered)))

\* f"leaderboard_daily_{limit}"
DailyLeaderboardKey(limit) ==
    <<CASE limit = 10 -> "leaderboard_daily_10"
        [] limit = 1 -> "leaderboard_daily_1">>

\* LeaderboardManager.get_daily_leaderboard(limit) at time t.
get_daily_leaderboard(C, scores, grades, limit, t) ==
    LET cache_key == DailyLeaderboardKey(limit)
        cached == CGet(C, cache_key, t)
    IN  IF Truthy(cached.value)
        THEN [ret |-> cached.value, hit |-> TRUE, C |-> cached.C]
        ELSE LET leaderboard == daily_leaderboard_rows(scores, grades, limit, t)
             IN  [ret |-> leaderboard, hit |-> FALSE,
                  C |-> CSet(cached.C, cache_key, leaderboard, <<300>>, t)]

\* Mutant: the scoring write leaves the global statistics in the cache.
invalidate_on_write_rankings_only(C) == invalidate_ranking_caches(C)

\* The invalidation after the write in update_user_answer.
invalidate_on_write(C) ==
    CDelete(invalidate_ranking_caches(C), GlobalStatsKey)

\* UserManager.update_user_answer(user_id, name, question, is_correct) at
\* time t: the dict returned, and the tables and the cache afterwards.
update_user_answer(C, scores, grades, streaks, ver, user_id, is_correct, t) ==
    LET user_score == IF user_id \in DOMAIN scores THEN scores[user_id]
                      ELSE [correct |-> 0, total |-> 0, stars |-> 0]
        stars_earned == IF is_correct THEN POINTS_PER_CORRECT_ANSWER ELSE 0
        new_score == [correct |-> user_score.correct
                                  + (IF is_correct THEN 1 ELSE 0),
                      total |-> user_score.total + 1,
                      stars |-> user_score.stars + stars_earned]
        scores2 == Put(scores, user_id, new_score)
        grades2 == add_user_grade(grades, user_id, is_correct, stars_earned, t)
        ver2 == ver + 1
        C1 == invalidate_on_write(C)
        current_activity == CGet(C1, ActivityKey, t)
        C2 == CSet(current_activity.C, ActivityKey,
                   IntVal(OrZero(current_activity.value) + 1), <<300>>, t)
        streaks2 == update_user_streak(streaks, user_id, is_correct, t)
        C3 == check_user_badges(C2, scores2, ver2, t)
    IN  [ret |-> [t |-> "score", score |-> new_score],
         scores |-> scores2, grades |-> grades2, streaks |-> streaks2,
         ver |-> ver2, C |-> C3]

\* The body of update_user_answer cut at its statements.  The head reads
\* the user's row, creating it with zeros when the user is new, and
\* computes the new score.
answer_head(scores, user_id, is_correct) ==
    LET user_score == IF user_id \in DOMAIN scores THEN scores[user_id]
                      ELSE [correct |-> 0, total |-> 0, stars |-> 0]
    IN  [scores |-> Put(scores, user_id, user_score),
         stars_earned |-> IF is_correct THEN POINTS_PER_CORRECT_ANSWER ELSE 0,
         new_score |->
             [correct |-> user_score.correct + (IF is_correct THEN 1 ELSE 0),
              total |-> user_score.total + 1,
              stars |-> user_score.stars
                        + (IF is_correct THEN POINTS_PER_CORRECT_ANSWER
                           ELSE 0)]]

\* What follows the invalidation: the activity counter, the streak and the
\* badge check.
answer_tail(C, scores, streaks, ver, user_id, is_correct, t) ==
    LET current_activity == CGet(C, ActivityKey, t)
        C2 == CSet(current_activity.C, ActivityKey,
                   IntVal(OrZero(current_activity.value) + 1), <<300>>, t)
    IN  [streaks |-> update_user_streak(streaks, user_id, is_correct, t),
         C |-> check_user_badges(C2, scores, ver, t)]

\* Mutant: the caches are invalidated before the score is written.
update_user_answer_invalidate_first == <<"invalidate", "write", "finish">>

\* The statements of update_user_answer after its head, in the order of
\* the code: the two writes to the store, the invalidation, and the rest
\* up to the return.
update_user_answer_steps == <<"write", "invalidate", "finish">>

NoOp == [kind |-> "none", key |-> << >>, ret |-> None, hit |-> FALSE,
         present |-> FALSE]

\* No update_user_answer call is in progress.
NoRequest == [pc |-> 0]

\* BotState.__init__: no session, no poll, no score, no active group.
NoQuizStep == [kind |-> "none", group |-> 0]

InitQuiz ==
    /\ quiz_sessions = EmptyMap
    /\ active_polls = EmptyMap
    /\ group_scores = EmptyMap
    /\ active_groups = {}
    /\ awaiting = {}
    /\ tasks = {}
    /\ quiz_log = [last |-> NoQuizStep, sent |-> EmptyMap, started |-> 0,
                   polls |-> 0]

NoChallengeOp == [kind |-> "none", challenge_id |-> 0, user_id |-> 0,
                  ret |-> None]

InitChallenges ==
    /\ user_challenges = EmptyMap
    /\ challenge_results = EmptyMap
    /\ challenge_log = NoChallengeOp

NoRetryCall ==
    [pc |-> "idle", max_retries |-> 0, attempt |-> 0, invocations |-> 0,
     last_exception |-> "None", raised |-> "None", outcomes |-> << >>]

NoPass == [pc |-> "idle", todo |-> << >>, processed |-> << >>]

InitNet ==
    /\ retry_call = NoRetryCall
    /\ message_buffer = << >>
    /\ buffer_pass = NoPass
    /\ net_log = [added |-> 0, attempts |-> << >>, sent |-> {},
                  too_old |-> {}]

InitExt == InitQuiz /\ InitChallenges /\ InitNet

InitCacheVars ==
    /\ cache = EmptyMap
    /\ cache_writes = EmptyMap
    /\ user_scores = EmptyMap
    /\ user_streaks = EmptyMap
    /\ db_version = 0
    /\ last_op = NoOp
    /\ user_grades = EmptyMap
    /\ request = NoRequest

-----
(* History kept beside the limiter: what the last call was and returned.   *)

NoUser == 0

NoCall ==
    [kind |-> "none", user |-> NoUser, command |-> "help", at |-> 0,
     allowed |-> TRUE, reset_time |-> 0, remaining |-> 0, retest |-> FALSE,
     denied_by |-> "none", global_checked |-> FALSE, handler_ran |-> FALSE]

\* Whether a call (kind, user, command) made now repeats the denied call
\* before it exactly reset_time seconds after that denial.
IsRetest(kind, user, command) ==
    /\ last_call.kind = kind
    /\ last_call.user = user
    /\ last_call.command = command
    /\ ~last_call.allowed
    /\ now = last_call.at + Secs(last_call.reset_time)

\* The fixed window of the pair (user, command): the window step of
\* is_user_allowed on a table keyed by the pair instead of the user.
ref_step(user, command) ==
    IF command \in DOMAIN user_limits
    THEN user_window_check(ref.windows, <<user, command>>,
                           user_limits[command], now)
    ELSE [allowed |-> TRUE, reset_time |-> 0, remaining |-> 0,
          reqs |-> ref.windows]

\* The same step for is_globally_allowed(command): the fixed-window rule
\* of is_user_allowed under the global limit of the command, on a window
\* kept for the command with no user.
ref_global_step(command) ==
    IF command \in DOMAIN global_limits
    THEN user_window_check(ref.windows, <<NoUser, command>>,
                           global_limits[command], now)
    ELSE [allowed |-> TRUE, reset_time |-> 0, remaining |-> 0,
          reqs |-> ref.windows]

\* The history starts empty.  windows, allowed: the reference windows and
\* what the reference decided for the last call.  denied: per (user,
\* command), the window in which a call was denied and the time of the
\* first denial in it.  nc_*: the two tables as they would be had
\* cleanup_expired never run, what the last call returns on them, and
\* whether the last call found its window removed by a cleanup.
NoRef ==
    [windows |-> EmptyMap, allowed |-> TRUE, denied |-> EmptyMap,
     nc_users |-> EmptyMap, nc_globals |-> EmptyMap, nc_allowed |-> TRUE,
     nc_reset_time |-> 0, nc_cleaned |-> FALSE]

----------------------------------------------------------------------------
(* Operations of the rate limiter *)

\* rate_limiter.is_user_allowed(user_id, command), called at time now.
DoIsUserAllowed(user_id, command) ==
    /\ calls < MaxCalls
    /\ LET r == is_user_allowed(user_requests, user_id, command, now)
       IN  /\ user_requests' = r.reqs
           /\ last_call' =
                [kind |-> "is_user_allowed", user |-> user_id,
                 command |-> command, at |-> now,
                 allowed |-> r.allowed, reset_time |-> r.reset_time,
                 remaining |-> r.remaining,
                 retest |-> IsRetest("is_user_allowed", user_id, command),
                 denied_by |-> IF r.allowed THEN "none" ELSE "user",
                 global_checked |-> FALSE, handler_ran |-> FALSE]
    /\ calls' = calls + 1
    /\ UNCHANGED <<now, clock_steps, global_requests>>
    /\ UNCHANGED cache_vars
    /\ UNCHANGED ext_vars

CallIsUserAllowed(user_id, command) ==
    /\ DoIsUserAllowed(user_id, command)
    /\ UNCHANGED ref

\* The same call, with the window of the pair (user_id, command) kept
\* beside it.
TrackedIsUserAllowed(user_id, command) ==
    /\ DoIsUserAllowed(user_id, command)
    /\ LET e == ref_step(user_id, command)
           r == is_user_allowed(user_requests, user_id, command, now)
           k == <<user_id, command>>
           same_window ==
               /\ k \in DOMAIN ref.denied
               /\ ref.denied[k].window_start
                     = user_requests[user_id].window_start
       IN  ref' = [ref EXCEPT
                     !.windows = e.reqs,
                     !.allowed = e.allowed,
                     !.denied =
                         IF r.allowed \/ same_window THEN @
                         ELSE Put(@, k,
                                  [window_start |->
                                       user_requests[user_id].window_start,
                                   at |-> now])]

\* A direct call rate_limiter.is_globally_allowed(command), as
\* QuizManager.send_single_poll_quiz makes for 'poll_creation'.
DoIsGloballyAllowed(command) ==
    /\ calls < MaxCalls
    /\ LET r == is_globally_allowed(global_requests, command, now)
       IN  /\ global_requests' = r.reqs
           /\ last_call' =
                [kind |-> "is_globally_allowed", user |-> NoUser,
                 command |-> command, at |-> now,
                 allowed |-> r.allowed, reset_time |-> r.reset_time,
                 remaining |-> r.remaining,
                 retest |-> IsRetest("is_globally_allowed", NoUser, command),
                 denied_by |-> IF r.allowed THEN "none" ELSE "global",
                 global_checked |-> TRUE, handler_ran |-> FALSE]
    /\ calls' = calls + 1
    /\ UNCHANGED <<now, clock_steps, user_requests>>
    /\ UNCHANGED cache_vars
    /\ UNCHANGED ext_vars

CallIsGloballyAllowed(command) ==
    /\ DoIsGloballyAllowed(command)
    /\ UNCHANGED ref

\* The same call, with the reference window of the command kept beside it.
TrackedIsGloballyAllowed(command) ==
    /\ calls < MaxGlobalCalls
    /\ DoIsGloballyAllowed(command)
    /\ LET e == ref_global_step(command)
       IN  ref' = [ref EXCEPT !.windows = e.reqs, !.allowed = e.allowed]

\* Mutant: the wrapper consults the global limit before the user limit.
rate_limit_global_first(ureqs, greqs, user_id, command, t) ==
    LET g == is_globally_allowed(greqs, command, t)
        u == is_user_allowed(ureqs, user_id, command, t)
    IN  IF ~g.allowed
        THEN [user_reqs |-> ureqs, global_reqs |-> g.reqs,
              denied_by |-> "global", global_checked |-> TRUE,
              reset_time |-> g.reset_time, remaining |-> g.remaining,
              handler_ran |-> FALSE]
        ELSE IF ~u.allowed
        THEN [user_reqs |-> u.reqs, global_reqs |-> g.reqs,
              denied_by |-> "user", global_checked |-> TRUE,
              reset_time |-> u.reset_time, remaining |-> u.remaining,
              handler_ran |-> FALSE]
        ELSE [user_reqs |-> u.reqs, global_reqs |-> g.reqs,
              denied_by |-> "none", global_checked |-> TRUE,
              reset_time |-> 0, remaining |-> 0, handler_ran |-> TRUE]

\* The wrapper of rate_limit(command) for an update that carries a user:
\* the two tables afterwards, which check denied, and whether the wrapped
\* handler ran.
rate_limit_wrapper(ureqs, greqs, user_id, command, t) ==
    LET u == is_user_allowed(ureqs, user_id, command, t)
        g == is_globally_allowed(greqs, command, t)
    IN  IF ~u.allowed
        THEN [user_reqs |-> u.reqs, global_reqs |-> greqs,
              denied_by |-> "user", global_checked |-> FALSE,
              reset_time |-> u.reset_time, remaining |-> u.remaining,
              handler_ran |-> FALSE]
        ELSE IF ~g.allowed
        THEN [user_reqs |-> u.reqs, global_reqs |-> g.reqs,
              denied_by |-> "global", global_checked |-> TRUE,
              reset_time |-> g.reset_time, remaining |-> g.remaining,
              handler_ran |-> FALSE]
        ELSE [user_reqs |-> u.reqs, global_reqs |-> g.reqs,
              denied_by |-> "none", global_checked |-> TRUE,
              reset_time |-> 0, remaining |-> 0, handler_ran |-> TRUE]

\* A handler wrapped by rate_limit(command), called for an update that
\* carries a user.
DoRateLimitedHandler(user_id, command) ==
    /\ calls < MaxCalls
    /\ LET w == rate_limit_wrapper(user_requests, global_requests, user_id,
                                   command, now)
       IN  /\ user_requests' = w.user_reqs
           /\ global_requests' = w.global_reqs
           /\ last_call' =
                [kind |-> "rate_limit", user |-> user_id,
                 command |-> command, at |-> now,
                 allowed |-> w.denied_by = "none",
                 reset_time |-> w.reset_time, remaining |-> w.remaining,
                 retest |-> FALSE, denied_by |-> w.denied_by,
                 global_checked |-> w.global_checked,
                 handler_ran |-> w.handler_ran]
    /\ calls' = calls + 1
    /\ UNCHANGED <<now, clock_steps>>
    /\ UNCHANGED cache_vars
    /\ UNCHANGED ext_vars

RateLimitedHandler(user_id, command) ==
    /\ DoRateLimitedHandler(user_id, command)
    /\ UNCHANGED ref

\* The same handler, with the reference window of the command kept beside
\* it: the reference steps when the wrapper reaches its global check.
TrackedRateLimitedHandler(user_id, command) ==
    /\ calls < MaxGlobalCalls
    /\ DoRateLimitedHandler(user_id, command)
    /\ LET w == rate_limit_wrapper(user_requests, global_requests, user_id,
                                   command, now)
           e == ref_global_step(command)
       IN  ref' = IF w.global_checked
                  THEN [ref EXCEPT !.windows = e.reqs, !.allowed = e.allowed]
                  ELSE ref

\* The same wrapper called with an object that has neither effective_user
\* nor from_user: the handler runs unchecked.
RateLimitedNoUser(command) ==
    /\ calls < MaxCalls
    /\ last_call' =
         [NoCall EXCEPT !.kind = "rate_limit", !.command = command,
                        !.at = now, !.handler_ran = TRUE]
    /\ calls' = calls + 1
    /\ UNCHANGED <<now, clock_steps, user_requests, global_requests, ref>>
    /\ UNCHANGED cache_vars
    /\ UNCHANGED ext_vars

\* rate_limiter.cleanup_expired()
RateCleanupExpired ==
    /\ user_requests' = rate_cleanup_users(user_requests, now)
    /\ global_requests' = rate_cleanup_globals(global_requests, now)
    /\ UNCHANGED <<now, clock_steps, calls, last_call, ref>>
    /\ UNCHANGED cache_vars
    /\ UNCHANGED ext_vars

\* The clock moves between two calls: by one tick, by a whole-second
\* sleep, or by exactly the reset_time the last denied call reported.
Delays ==
    {1} \cup {Secs(s) : s \in SleepSeconds}
        \cup (IF ~last_call.allowed /\ last_call.reset_time > 0
              THEN {Secs(last_call.reset_time)} ELSE {})

Advance(d) ==
    /\ clock_steps < MaxClockSteps
    /\ now' = now + d
    /\ clock_steps' = clock_steps + 1
    /\ UNCHANGED <<calls, user_requests, global_requests, last_call, ref>>
    /\ UNCHANGED cache_vars
    /\ UNCHANGED ext_vars

InitRate ==
    /\ now = 0
    /\ clock_steps = 0
    /\ calls = 0
    /\ user_requests = EmptyMap
    /\ global_requests = EmptyMap
    /\ last_call = NoCall
    /\ ref = NoRef
    /\ InitCacheVars
    /\ InitExt

NextRate ==
    \/ \E u \in RateUsers, c \in UserCheckCommands : CallIsUserAllowed(u, c)
    \/ \E c \in GlobalCheckCommands : CallIsGloballyAllowed(c)
    \/ \E u \in RateUsers, c \in WrappedCommands : RateLimitedHandler(u, c)
    \/ \E c \in WrappedCommands : RateLimitedNoUser(c)
    \/ RateCleanupExpired
    \/ \E d \in Delays : Advance(d)

\* The rate limiter under direct calls, wrapped handlers, cleanup and a
\* moving clock.
SpecRate == InitRate /\ [][NextRate]_vars

NextRateRef ==
    \/ \E u \in RateUsers, c \in UserCheckCommands : TrackedIsUserAllowed(u, c)
    \/ RateCleanupExpired
    \/ \E d \in Delays : Advance(d)

\* is_user_allowed alone, each call compared with the fixed window of its
\* (user, command) pair.
SpecRateRef == InitRate /\ [][NextRateRef]_vars

\* is_user_allowed with, beside it, the same call on the table that no
\* cleanup_expired has touched.
UncleanedIsUserAllowed(user_id, command) ==
    /\ DoIsUserAllowed(user_id, command)
    /\ LET e == is_user_allowed(ref.nc_users, user_id, command, now)
       IN  ref' = [ref EXCEPT
                     !.nc_users = e.reqs,
                     !.nc_allowed = e.allowed,
                     !.nc_reset_time = e.reset_time,
                     !.nc_cleaned = /\ user_id \in DOMAIN ref.nc_users
                                    /\ user_id \notin DOMAIN user_requests]

\* is_globally_allowed with, beside it, the same call on the table that no
\* cleanup_expired has touched.
UncleanedIsGloballyAllowed(command) ==
    /\ DoIsGloballyAllowed(command)
    /\ LET e == is_globally_allowed(ref.nc_globals, command, now)
       IN  ref' = [ref EXCEPT
                     !.nc_globals = e.reqs,
                     !.nc_allowed = e.allowed,
                     !.nc_reset_time = e.reset_time,
                     !.nc_cleaned = /\ command \in DOMAIN ref.nc_globals
                                    /\ command \notin DOMAIN global_requests]

\* Between two calls the clock moves by one tick, or just past the age at
\* which cleanup_expired drops a global or a user window.
CleanupDelays ==
    {1, Secs(GlobalCleanupAge) + 1, Secs(UserCleanupAge) + 1}

NextRateCleanup ==
    \/ \E u \in RateUsers, c \in CleanupUserCommands :
          UncleanedIsUserAllowed(u, c)
    \/ \E c \in CleanupGlobalCommands : UncleanedIsGloballyAllowed(c)
    \/ RateCleanupExpired
    \/ \E d \in CleanupDelays : Advance(d)

\* The limiter with cleanup_expired run at arbitrary points, each call
\* compared with the same call on tables that are never cleaned.
SpecRateCleanup == InitRate /\ [][NextRateCleanup]_vars

NextGlobalRef ==
    \/ TrackedIsGloballyAllowed("poll_creation")
    \/ \E u \in GlobalUsers, c \in WrappedCommands :
          TrackedRateLimitedHandler(u, c)
    \/ RateCleanupExpired
    \/ \E d \in Delays : Advance(d)

\* The global limit, reached directly and through handlers of several
\* users, each global check compared with the fixed window of its command.
SpecGlobalRef == InitRate /\ [][NextGlobalRef]_vars

----------------------------------------------------------------------------
(* Operations of the cache and of the scoring service *)

TheCache == [cache |-> cache, writes |-> cache_writes]

\* What an operation leaves in last_op: the key it was about, the value
\* it returned, whether a reader was served from the cache, and whether
\* the key had an entry in the dictionary when the operation began (for
\* cleanup_expired, which has no key: whether some entry had expired).
Op(kind, key, ret, hit, present) ==
    [kind |-> kind, key |-> key, ret |-> ret, hit |-> hit,
     present |-> present]

\* global_cache.get(key)
CacheGet(key) ==
    /\ calls < MaxCacheOps
    /\ LET r == CGet(TheCache, key, now)
       IN  /\ cache' = r.C.cache
           /\ cache_writes' = r.C.writes
           /\ last_op' = Op("cache_get", key, r.value, r.value # None,
                            key \in DOMAIN cache)
    /\ calls' = calls + 1
    /\ UNCHANGED <<now, clock_steps, user_scores, user_streaks, db_version,
                   user_grades, request>>
    /\ UNCHANGED rate_vars
    /\ UNCHANGED ext_vars

\* global_cache.set(key, value, ttl)
CacheSet(key, value, ttl) ==
    /\ calls < MaxCacheOps
    /\ LET C == CSet(TheCache, key, value, ttl, now)
       IN  /\ cache' = C.cache
           /\ cache_writes' = C.writes
    /\ last_op' = Op("cache_set", key, None, FALSE, key \in DOMAIN cache)
    /\ calls' = calls + 1
    /\ UNCHANGED <<now, clock_steps, user_scores, user_streaks, db_version,
                   user_grades, request>>
    /\ UNCHANGED rate_vars
    /\ UNCHANGED ext_vars

\* global_cache.delete(key)
CacheDelete(key) ==
    /\ calls < MaxCacheOps
    /\ LET C == CDelete(TheCache, key)
       IN  /\ cache' = C.cache
           /\ cache_writes' = C.writes
    /\ last_op' = Op("cache_delete", key, None, FALSE, key \in DOMAIN cache)
    /\ calls' = calls + 1
    /\ UNCHANGED <<now, clock_steps, user_scores, user_streaks, db_version,
                   user_grades, request>>
    /\ UNCHANGED rate_vars
    /\ UNCHANGED ext_vars

\* global_cache.clear()
CacheClear ==
    /\ calls < MaxCacheOps
    /\ cache' = cache_clear(cache)
    /\ cache_writes' = EmptyMap
    /\ last_op' = Op("cache_clear", << >>, None, FALSE, FALSE)
    /\ calls' = calls + 1
    /\ UNCHANGED <<now, clock_steps, user_scores, user_streaks, db_version,
                   user_grades, request>>
    /\ UNCHANGED rate_vars
    /\ UNCHANGED ext_vars

\* global_cache.cleanup_expired()
CacheCleanupExpired ==
    /\ calls < MaxCacheOps
    /\ cache' = cache_cleanup_expired(cache, now)
    /\ last_op' = Op("cache_cleanup_expired", << >>, None, FALSE,
                     \E k \in DOMAIN cache : now >= cache[k].expiry)
    /\ calls' = calls + 1
    /\ UNCHANGED <<now, clock_steps, cache_writes, user_scores, user_streaks,
                   db_version, user_grades, request>>
    /\ UNCHANGED rate_vars
    /\ UNCHANGED ext_vars

\* user_manager.get_ranking_paginated(page, per_page, group_only)
GetRankingPaginated(req) ==
    /\ calls < MaxCacheOps
    /\ LET r == get_ranking_paginated(TheCache, user_scores, db_version,
                    req.page, req.per_page, req.group_only, now)
           key == RankingPageKey(req.page, req.per_page, req.group_only)
       IN  /\ cache' = r.C.cache
           /\ cache_writes' = r.C.writes
           /\ last_op' = Op("get_ranking_paginated", key, r.ret, r.hit,
                            key \in DOMAIN cache)
    /\ calls' = calls + 1
    /\ UNCHANGED <<now, clock_steps, user_scores, user_streaks, db_version,
                   user_grades, request>>
    /\ UNCHANGED rate_vars
    /\ UNCHANGED ext_vars

\* user_manager.get_global_stats()
GetGlobalStats ==
    /\ calls < MaxCacheOps
    /\ LET r == get_global_stats(TheCache, user_scores, db_version, now)
       IN  /\ cache' = r.C.cache
           /\ cache_writes' = r.C.writes
           /\ last_op' = Op("get_global_stats", GlobalStatsKey, r.ret, r.hit,
                            GlobalStatsKey \in DOMAIN cache)
    /\ calls' = calls + 1
    /\ UNCHANGED <<now, clock_steps, user_scores, user_streaks, db_version,
                   user_grades, request>>
    /\ UNCHANGED rate_vars
    /\ UNCHANGED ext_vars

\* leaderboard_manager.get_daily_leaderboard(limit)
GetDailyLeaderboard(limit) ==
    /\ calls < MaxCacheOps
    /\ LET r == get_daily_leaderboard(TheCache, user_scores, user_grades,
                                      limit, now)
           key == DailyLeaderboardKey(limit)
       IN  /\ cache' = r.C.cache
           /\ cache_writes' = r.C.writes
           /\ last_op' = Op("get_daily_leaderboard", key, r.ret, r.hit,
                            key \in DOMAIN cache)
    /\ calls' = calls + 1
    /\ UNCHANGED <<now, clock_steps, user_scores, user_streaks, db_version,
                   user_grades, request>>
    /\ UNCHANGED rate_vars
    /\ UNCHANGED ext_vars

\* A call of a function decorated with cache_result(global_cache, ttl=ttl)
\* that returns result when it is run.
CachedCall(result, ttl) ==
    /\ calls < MaxCacheOps
    /\ LET r == cache_result_wrapper(TheCache, CachedCallKey, result, ttl,
                                     now)
       IN  /\ cache' = r.C.cache
           /\ cache_writes' = r.C.writes
           /\ last_op' = Op("cache_result", CachedCallKey, r.ret, r.hit,
                            CachedCallKey \in DOMAIN cache)
    /\ calls' = calls + 1
    /\ UNCHANGED <<now, clock_steps, user_scores, user_streaks, db_version,
                   user_grades, request>>
    /\ UNCHANGED rate_vars
    /\ UNCHANGED ext_vars

\* user_manager.update_user_answer(user_id, name, question, is_correct)
UpdateUserAnswer(user_id, is_correct) ==
    /\ calls < MaxCacheOps
    /\ db_version < MaxAnswers
    /\ LET r == update_user_answer(TheCache, user_scores, user_grades,
                                   user_streaks, db_version, user_id,
                                   is_correct, now)
       IN  /\ cache' = r.C.cache
           /\ cache_writes' = r.C.writes
           /\ user_scores' = r.scores
           /\ user_grades' = r.grades
           /\ user_streaks' = r.streaks
           /\ db_version' = r.ver
           /\ last_op' = Op("update_user_answer", GlobalStatsKey, r.ret, FALSE,
                            GlobalStatsKey \in DOMAIN cache)
    /\ calls' = calls + 1
    /\ UNCHANGED <<now, clock_steps, request>>
    /\ UNCHANGED rate_vars
    /\ UNCHANGED ext_vars

\* update_user_answer statement by statement.  The function is a plain
\* def with no await and the program starts no thread, so once it has begun
\* no other handler runs before it returns: the other operations of
\* NextAnswerSteps wait for request.pc = 0.
AnswerBegin(user_id, is_correct) ==
    /\ request.pc = 0
    /\ calls < MaxCacheOps
    /\ db_version < MaxAnswers
    /\ LET h == answer_head(user_scores, user_id, is_correct)
       IN  /\ user_scores' = h.scores
           /\ request' =
                [pc |-> 1, user_id |-> user_id, is_correct |-> is_correct,
                 stars_earned |-> h.stars_earned, new_score |-> h.new_score,
                 ver0 |-> db_version, done |-> << >>,
                 had_stats |-> GlobalStatsKey \in DOMAIN cache,
                 whole |-> update_user_answer(TheCache, user_scores,
                               user_grades, user_streaks, db_version,
                               user_id, is_correct, now)]
    /\ UNCHANGED <<now, clock_steps, calls, cache, cache_writes,
                   user_streaks, db_version, last_op, user_grades>>
    /\ UNCHANGED rate_vars
    /\ UNCHANGED ext_vars

\* self.db.update_user_score(...); self.db.add_user_grade(...)
AnswerWrite ==
    /\ request.pc # 0
    /\ update_user_answer_steps[request.pc] = "write"
    /\ user_scores' = Put(user_scores, request.user_id, request.new_score)
    /\ user_grades' = add_user_grade(user_grades, request.user_id,
                           request.is_correct, request.stars_earned, now)
    /\ db_version' = db_version + 1
    /\ request' = [request EXCEPT !.pc = @ + 1, !.done = Append(@, "write")]
    /\ UNCHANGED <<now, clock_steps, calls, cache, cache_writes,
                   user_streaks, last_op>>
    /\ UNCHANGED rate_vars
    /\ UNCHANGED ext_vars

\* self._invalidate_ranking_caches(); global_cache.delete("global_stats")
AnswerInvalidate ==
    /\ request.pc # 0
    /\ update_user_answer_steps[request.pc] = "invalidate"
    /\ LET C == invalidate_on_write(TheCache)
       IN  /\ cache' = C.cache
           /\ cache_writes' = C.writes
    /\ request' = [request EXCEPT !.pc = @ + 1,
                                  !.done = Append(@, "invalidate")]
    /\ UNCHANGED <<now, clock_steps, calls, user_scores, user_streaks,
                   db_version, last_op, user_grades>>
    /\ UNCHANGED rate_vars
    /\ UNCHANGED ext_vars

\* The activity counter, the streak, the badges and the return.
AnswerFinish ==
    /\ request.pc # 0
    /\ update_user_answer_steps[request.pc] = "finish"
    /\ LET r == answer_tail(TheCache, user_scores, user_streaks, db_version,
                            request.user_id, request.is_correct, now)
       IN  /\ cache' = r.C.cache
           /\ cache_writes' = r.C.writes
           /\ user_streaks' = r.streaks
    /\ last_op' = Op("update_user_answer", GlobalStatsKey,
                     [t |-> "score", score |-> request.new_score], FALSE,
                     request.had_stats)
    /\ calls' = calls + 1
    /\ request' = IF request.pc = Len(update_user_answer_steps)
                  THEN NoRequest
                  ELSE [request EXCEPT !.pc = @ + 1,
                                       !.done = Append(@, "finish")]
    /\ UNCHANGED <<now, clock_steps, user_scores, db_version, user_grades>>
    /\ UNCHANGED rate_vars
    /\ UNCHANGED ext_vars

\* The clock moves between two operations: by one tick, or to the next
\* expiry of an entry of the cache.  What the last operation returned is
\* forgotten.
NextExpiries ==
    LET later == {cache[k].expiry : k \in {x \in DOMAIN cache :
                                            cache[x].expiry > now}}
    IN  {e \in later : \A f \in later : e <= f}

CacheDelays == {1} \cup {e - now : e \in NextExpiries}

AdvanceCache(d) ==
    /\ clock_steps < MaxCacheClockSteps
    /\ now' = now + d
    /\ clock_steps' = clock_steps + 1
    /\ last_op' = NoOp
    /\ UNCHANGED <<calls, cache, cache_writes, user_scores, user_streaks,
                   db_version, user_grades, request>>
    /\ UNCHANGED rate_vars
    /\ UNCHANGED ext_vars

InitCache ==
    /\ now = 0
    /\ clock_steps = 0
    /\ calls = 0
    /\ user_requests = EmptyMap
    /\ global_requests = EmptyMap
    /\ last_call = NoCall
    /\ ref = NoRef
    /\ InitCacheVars
    /\ InitExt

NextCache ==
    \/ \E k \in GetKeys : CacheGet(k)
    \/ \E k \in GetKeys, v \in DirectValues, ttl \in DirectTtls :
          CacheSet(k, IntVal(v), ttl)
    \/ \E k \in GetKeys : CacheDelete(k)
    \/ CacheClear
    \/ CacheCleanupExpired
    \/ \E d \in CacheDelays : AdvanceCache(d)

\* The cache under direct calls of its operations and a moving clock.
SpecCache == InitCache /\ [][NextCache]_vars

NextScoring ==
    \/ \E a \in AnswerEvents : UpdateUserAnswer(a[1], a[2])
    \/ \E req \in RankingRequests : GetRankingPaginated(req)
    \/ GetGlobalStats
    \/ \E a \in SetCalls : CacheSet(a.key, IntVal(a.value), a.ttl)
    \/ CacheCleanupExpired
    \/ \E d \in CacheDelays : AdvanceCache(d)

\* The scoring service: answer events, ranking and statistics reads, other
\* callers' writes to the cache, the periodic cleanup and a moving clock.
SpecScoring == InitCache /\ [][NextScoring]_vars

NextAnswerSteps ==
    \/ \E a \in AnswerEvents : AnswerBegin(a[1], a[2])
    \/ AnswerWrite
    \/ AnswerInvalidate
    \/ AnswerFinish
    \/ request.pc = 0 /\ GetGlobalStats
    \/ \E req \in RankingRequests : request.pc = 0 /\ GetRankingPaginated(req)
    \/ \E a \in SetCalls :
          request.pc = 0 /\ CacheSet(a.key, IntVal(a.value), a.ttl)
    \/ \E d \in CacheDelays : request.pc = 0 /\ AdvanceCache(d)

\* The scoring service with update_user_answer run one statement at a time.
SpecAnswerSteps == InitCache /\ [][NextAnswerSteps]_vars

\* Between two answers the clock moves by one tick, to the last tick
\* before the activity counter expires, or to its expiry.
ActivityDelays == {1, Secs(300) - 1, Secs(300)}

NextActivity ==
    \/ \E a \in AnswerEvents : UpdateUserAnswer(a[1], a[2])
    \/ CacheGet(ActivityKey)
    \/ CacheCleanupExpired
    \/ CacheClear
    \/ \E d \in ActivityDelays : AdvanceCache(d)

\* Answer events as the only writers of the activity counter, with reads,
\* cleanup and clear of the cache and a clock that reaches the counter's
\* expiry.
SpecActivity == InitCache /\ [][NextActivity]_vars

NextReaders ==
    \/ \E a \in AnswerEvents : UpdateUserAnswer(a[1], a[2])
    \/ \E limit \in LeaderboardLimits : GetDailyLeaderboard(limit)
    \/ \E v \in FunctionResults, ttl \in DirectTtls : CachedCall(v, ttl)
    \/ \E v \in FalsyValues : CacheSet(FalsyKey, v, NoTtl)
    \/ CacheGet(FalsyKey)
    \/ \E d \in CacheDelays : AdvanceCache(d)

\* The readers built on the cache: the daily leaderboard, a function
\* behind cache_result and direct gets, with answers coming in, stored
\* values that Python counts as false, and a moving clock.
SpecReaders == InitCache /\ [][NextReaders]_vars

\* ---------------------------------------------------------------------
\* streak_manager.py: the streaks of the users over the days
\* ---------------------------------------------------------------------
StreakUsers == {1, 2}
MaxStreakCalls == 4
DayDelays == {Secs(24 * 60 * 60), 2 * Secs(24 * 60 * 60)}

StreakOp(user_id, is_correct) ==
    [kind |-> "update_user_streak", user_id |-> user_id,
     is_correct |-> is_correct]

UpdateUserStreak(user_id, is_correct) ==
    /\ calls < MaxStreakCalls
    /\ user_streaks' = update_user_streak(user_streaks, user_id, is_correct,
                                          now)
    /\ last_op' = StreakOp(user_id, is_correct)
    /\ calls' = calls + 1
    /\ UNCHANGED <<now, clock_steps, cache, cache_writes, user_scores,
                   db_version, user_grades, request>>
    /\ UNCHANGED rate_vars
    /\ UNCHANGED ext_vars

AdvanceDays(d) ==
    /\ clock_steps < MaxClockSteps
    /\ now' = now + d
    /\ clock_steps' = clock_steps + 1
    /\ last_op' = NoOp
    /\ UNCHANGED <<calls, cache, cache_writes, user_scores, user_streaks,
                   db_version, user_grades, request>>
    /\ UNCHANGED rate_vars
    /\ UNCHANGED ext_vars

NextStreak ==
    \/ \E u \in StreakUsers, c \in BOOLEAN : UpdateUserStreak(u, c)
    \/ \E d \in DayDelays : AdvanceDays(d)

SpecStreak == InitCache /\ [][NextStreak]_vars

\* ---------------------------------------------------------------------
\* quiz_manager.py: get_random_question and the recent questions of a
\* theme.  A question is modelled by its 'question' text, the only field
\* the function reads.
\* ---------------------------------------------------------------------
ThemeQuestions ==
    [histoire_geographie |-> <<"q1", "q1", "q1", "q1", "q1", "q2">>,
     geographie |-> << >>]
RequestedThemes == {"histoire_geographie", "geographie", "svt"}
QuestionDelays == {Secs(1800) - 1, Secs(1800)}

Range(seq) == {seq[i] : i \in DOMAIN seq}
StrVal(s) == [t |-> "str", v |-> s]
RecentKey(theme) == <<"recent_questions", theme>>

\* global_cache.get(recent_cache_key) or []
recent_questions_get(C, theme, t) ==
    LET got == CGet(C, RecentKey(theme), t)
    IN  [list |-> IF Truthy(got.value) THEN got.value.v ELSE << >>,
         C |-> got.C]

\* The list random.choice draws from, once every question is kept.
available_questions_unfiltered(C, questions, theme, avoid_recent, t) ==
    IF theme \notin DOMAIN questions THEN << >> ELSE questions[theme]

\* The list random.choice draws from (lines 67-83).
available_questions(C, questions, theme, avoid_recent, t) ==
    IF theme \notin DOMAIN questions \/ questions[theme] = << >>
    THEN << >>
    ELSE LET all == questions[theme]
         IN  IF avoid_recent /\ Len(all) > 5
             THEN LET recent == recent_questions_get(C, theme, t).list
                      NotRecent(q) == q \notin Range(recent)
                      filtered == SelectSeq(all, NotRecent)
                  IN  IF filtered # << >> THEN filtered ELSE all
             ELSE all

\* get_random_question, `selected` being the draw of random.choice.
get_random_question(C, questions, theme, avoid_recent, selected, t) ==
    IF theme \notin DOMAIN questions \/ questions[theme] = << >>
    THEN [ret |-> None, C |-> C]
    ELSE LET C1 == IF avoid_recent /\ Len(questions[theme]) > 5
                   THEN recent_questions_get(C, theme, t).C ELSE C
         IN  IF avoid_recent
             THEN LET got == recent_questions_get(C1, theme, t)
                      appended == Append(got.list, selected)
                      n == Len(appended)
                      kept == IF n > 10
                              THEN SubSeq(appended, n - 9, n)
                              ELSE appended
                  IN  [ret |-> StrVal(selected),
                       C |-> CSet(got.C, RecentKey(theme), ListVal(kept),
                                  <<1800>>, t)]
             ELSE [ret |-> StrVal(selected), C |-> C1]

GetRandomQuestion(theme, avoid_recent, selected) ==
    /\ LET choices == available_questions(TheCache, ThemeQuestions, theme,
                                          avoid_recent, now)
       IN  IF choices = << >> THEN selected = ""
           ELSE selected \in Range(choices)
    /\ LET r == get_random_question(TheCache, ThemeQuestions, theme,
                                    avoid_recent, selected, now)
       IN  /\ cache' = r.C.cache
           /\ cache_writes' = r.C.writes
           /\ last_op' = NoOp
    /\ UNCHANGED <<now, clock_steps, calls, user_scores, user_streaks, db_version,
                   user_grades, request>>
    /\ UNCHANGED rate_vars
    /\ UNCHANGED ext_vars

QuestionTexts == {""} \cup UNION {Range(ThemeQuestions[th]) :
                                    th \in DOMAIN ThemeQuestions}

NextQuestions ==
    \/ \E th \in RequestedThemes, a \in BOOLEAN, q \in QuestionTexts :
           GetRandomQuestion(th, a, q)
    \/ \E d \in QuestionDelays : AdvanceCache(d)

SpecQuestions == InitCache /\ [][NextQuestions]_vars

\* ---------------------------------------------------------------------
\* challenge_manager.py: challenges between two users.  D is the database:
\* the tables user_challenges and challenge_results.
\* ---------------------------------------------------------------------
ChallengeUsers == {1, 2}
ChallengeTypes == {"quiz_race"}
ChallengeParameters == {<<1>>}
ChallengeDelays == {Secs(24 * 60 * 60), Secs(24 * 60 * 60) + 1}
UnknownChallenge == 0
MaxChallenges == 1
MaxChallengeCalls == 4

TheChallenges == [challenges |-> user_challenges,
                  results |-> challenge_results]

\* The text sqlite3 stores for a datetime: isoformat(" "), which carries a
\* fraction of a second unless the microseconds are 0.
sqlite_datetime_text(t, microseconds) ==
    [seconds |-> t \div TicksPerSecond,
     fraction |-> (t % TicksPerSecond # 0) \/ microseconds]

\* datetime.strptime(text, '%Y-%m-%d %H:%M:%S'): the time in ticks, or
\* nothing (ValueError) when the text carries a fraction.
strptime_seconds(text) ==
    IF text.fraction THEN << >> ELSE <<Secs(text.seconds)>>

create_challenge(D, challenger_id, challenged_id, challenge_type, parameters, microseconds, t) ==
    IF challenger_id = challenged_id THEN [ret |-> None, D |-> D]
    ELSE LET challenge_id == Cardinality(DOMAIN D.challenges) + 1
             expires_at == t + Secs(24 * 60 * 60)
         IN  [ret |-> IntVal(challenge_id),
              D |-> [D EXCEPT !.challenges =
                       Put(@, challenge_id,
                           [challenger_id |-> challenger_id,
                            challenged_id |-> challenged_id,
                            challenge_type |-> challenge_type,
                            parameters |-> parameters,
                            status |-> "pending",
                            expires_at |->
                                sqlite_datetime_text(expires_at,
                                                     microseconds),
                            winner_id |-> None])]]

\* accept_challenge taking the challenge without looking at who asks.
accept_challenge_by_anyone(D, challenge_id, user_id, t) ==
    IF \/ challenge_id \notin DOMAIN D.challenges
       \/ D.challenges[challenge_id].status # "pending"
    THEN [ret |-> FALSE, D |-> D]
    ELSE LET expires_at ==
                 strptime_seconds(D.challenges[challenge_id].expires_at)
         IN  IF expires_at = << >> THEN [ret |-> FALSE, D |-> D]
             ELSE IF t > expires_at[1]
             THEN [ret |-> FALSE,
                   D |-> [D EXCEPT !.challenges[challenge_id].status =
                                      "expired"]]
             ELSE [ret |-> TRUE,
                   D |-> [D EXCEPT !.challenges[challenge_id].status =
                                      "accepted"]]

accept_challenge(D, challenge_id, user_id, t) ==
    IF \/ challenge_id \notin DOMAIN D.challenges
       \/ D.challenges[challenge_id].challenged_id # user_id
       \/ D.challenges[challenge_id].status # "pending"
    THEN [ret |-> FALSE, D |-> D]
    ELSE LET expires_at ==
                 strptime_seconds(D.challenges[challenge_id].expires_at)
         IN  IF expires_at = << >> THEN [ret |-> FALSE, D |-> D]
             ELSE IF t > expires_at[1]
             THEN [ret |-> FALSE,
                   D |-> [D EXCEPT !.challenges[challenge_id].status =
                                      "expired"]]
             ELSE [ret |-> TRUE,
                   D |-> [D EXCEPT !.challenges[challenge_id].status =
                                      "accepted"]]

\* _check_challenge_completion closing the challenge as soon as one of the
\* two has answered enough questions.
check_challenge_completion_either(D, challenge_id) ==
    IF \/ challenge_id \notin DOMAIN D.challenges
       \/ D.challenges[challenge_id].status # "accepted"
    THEN D
    ELSE LET c == D.challenges[challenge_id]
             Answered(u) ==
                 IF <<challenge_id, u>> \in DOMAIN D.results
                 THEN <<D.results[<<challenge_id, u>>].questions_answered>>
                 ELSE << >>
             target_questions == IF c.parameters = << >> THEN 10
                                 ELSE c.parameters[1]
             Done(u) == /\ Answered(u) # << >>
                        /\ Answered(u)[1] >= target_questions
         IN  IF /\ c.challenge_type = "quiz_race"
                /\ (Done(c.challenger_id) \/ Done(c.challenged_id))
             THEN [D EXCEPT !.challenges[challenge_id].status = "completed"]
             ELSE D

check_challenge_completion(D, challenge_id) ==
    IF \/ challenge_id \notin DOMAIN D.challenges
       \/ D.challenges[challenge_id].status # "accepted"
    THEN D
    ELSE LET c == D.challenges[challenge_id]
             Answered(u) ==
                 IF <<challenge_id, u>> \in DOMAIN D.results
                 THEN <<D.results[<<challenge_id, u>>].questions_answered>>
                 ELSE << >>
             Stars(u) ==
                 IF <<challenge_id, u>> \in DOMAIN D.results
                 THEN D.results[<<challenge_id, u>>].stars_earned ELSE 0
         IN  IF c.challenge_type = "quiz_race"
             THEN LET target_questions ==
                          IF c.parameters = << >> THEN 10
                          ELSE c.parameters[1]
                      Done(u) == /\ Answered(u) # << >>
                                 /\ Answered(u)[1] >= target_questions
                      winner_id ==
                          IF Stars(c.challenger_id) = Stars(c.challenged_id)
                          THEN None
                          ELSE IF Stars(c.challenger_id)
                                     > Stars(c.challenged_id)
                          THEN IntVal(c.challenger_id)
                          ELSE IntVal(c.challenged_id)
                  IN  IF Done(c.challenger_id) /\ Done(c.challenged_id)
                      THEN [D EXCEPT
                              !.challenges[challenge_id].status = "completed",
                              !.challenges[challenge_id].winner_id =
                                  winner_id]
                      ELSE D
             ELSE D

update_challenge_progress(D, challenge_id, user_id, is_correct, stars_earned) ==
    LET key == <<challenge_id, user_id>>
        correct == IF is_correct THEN 1 ELSE 0
        row == IF key \in DOMAIN D.results
               THEN [questions_answered |->
                         D.results[key].questions_answered + 1,
                     correct_answers |->
                         D.results[key].correct_answers + correct,
                     stars_earned |->
                         D.results[key].stars_earned + stars_earned]
               ELSE [questions_answered |-> 1, correct_answers |-> correct,
                     stars_earned |-> stars_earned]
    IN  check_challenge_completion(
            [D EXCEPT !.results = Put(@, key, row)], challenge_id)

ChallengeOp(kind, challenge_id, user_id, ret) ==
    [kind |-> kind, challenge_id |-> challenge_id, user_id |-> user_id,
     ret |-> ret]

ChallengeFrame ==
    /\ UNCHANGED <<now, clock_steps>>
    /\ UNCHANGED rate_vars
    /\ UNCHANGED cache_vars
    /\ UNCHANGED <<quiz_vars, net_vars>>

CreateChallenge(challenger_id, challenged_id, challenge_type, parameters, microseconds) ==
    /\ calls < MaxChallengeCalls
    /\ Cardinality(DOMAIN user_challenges) < MaxChallenges
    /\ LET r == create_challenge(TheChallenges, challenger_id, challenged_id,
                                 challenge_type, parameters, microseconds,
                                 now)
       IN  /\ user_challenges' = r.D.challenges
           /\ challenge_results' = r.D.results
           /\ challenge_log' = ChallengeOp("create_challenge", 0,
                                           challenger_id, r.ret)
    /\ calls' = calls + 1
    /\ ChallengeFrame

AcceptChallenge(challenge_id, user_id) ==
    /\ calls < MaxChallengeCalls
    /\ LET r == accept_challenge(TheChallenges, challenge_id, user_id, now)
       IN  /\ user_challenges' = r.D.challenges
           /\ challenge_results' = r.D.results
           /\ challenge_log' = ChallengeOp("accept_challenge", challenge_id,
                                           user_id, r.ret)
    /\ calls' = calls + 1
    /\ ChallengeFrame

UpdateChallengeProgress(challenge_id, user_id, is_correct, stars_earned) ==
    /\ calls < MaxChallengeCalls
    /\ LET D == update_challenge_progress(TheChallenges, challenge_id,
                                          user_id, is_correct, stars_earned)
       IN  /\ user_challenges' = D.challenges
           /\ challenge_results' = D.results
           /\ challenge_log' = ChallengeOp("update_challenge_progress",
                                           challenge_id, user_id, None)
    /\ calls' = calls + 1
    /\ ChallengeFrame

AdvanceChallenges(d) ==
    /\ clock_steps < MaxCacheClockSteps
    /\ now' = now + d
    /\ clock_steps' = clock_steps + 1
    /\ challenge_log' = NoChallengeOp
    /\ UNCHANGED <<calls, user_challenges, challenge_results>>
    /\ UNCHANGED rate_vars
    /\ UNCHANGED cache_vars
    /\ UNCHANGED <<quiz_vars, net_vars>>

ChallengeIds == DOMAIN user_challenges \cup {UnknownChallenge}

NextChallenges ==
    \/ \E a, b \in ChallengeUsers, ty \in ChallengeTypes,
          pa \in ChallengeParameters, m \in BOOLEAN :
           CreateChallenge(a, b, ty, pa, m)
    \/ \E c \in ChallengeIds, u \in ChallengeUsers : AcceptChallenge(c, u)
    \/ \E c \in DOMAIN user_challenges, u \in ChallengeUsers, ok \in BOOLEAN :
           UpdateChallengeProgress(c, u, ok, IF ok THEN 1 ELSE 0)
    \/ \E d \in ChallengeDelays : AdvanceChallenges(d)

SpecChallenges == InitRate /\ [][NextChallenges]_vars

\* ---------------------------------------------------------------------
\* network_manager.py: retry_on_network_error.  retry_call is one call of
\* a wrapped function: pc is where the wrapper stands ("calling": func is
\* running; "sleeping": in asyncio.sleep; "returned"; "raised"), outcomes
\* lists what the invocations of func did so far.
\* ---------------------------------------------------------------------
MaxRetriesValues == {0, 1, 3}
ExceptionClasses ==
    {"RetryAfter", "NetworkError", "TimedOut", "BadRequest", "ValueError"}
AttemptOutcomes == {"ok"} \cup ExceptionClasses

\* isinstance(e, cls) for the classes of telegram.error: BadRequest and
\* TimedOut derive from NetworkError, RetryAfter does not.
IsInstance(e, cls) ==
    \/ e = cls
    \/ cls = "NetworkError" /\ e \in {"BadRequest", "TimedOut"}
    \/ cls = "Exception"

\* The except clause of the wrapper that handles e: the first one, in the
\* order of the source, whose classes e is an instance of.
ExceptClause(e) ==
    IF IsInstance(e, "RetryAfter") THEN "RetryAfter"
    ELSE IF IsInstance(e, "NetworkError") \/ IsInstance(e, "TimedOut")
    THEN "NetworkError"
    ELSE IF IsInstance(e, "BadRequest") THEN "BadRequest"
    ELSE "Exception"

\* The for loop takes its next attempt, or is over: raise last_exception.
wrapper_next_attempt(call) ==
    IF call.attempt + 1 < call.max_retries + 1
    THEN [call EXCEPT !.pc = "calling", !.attempt = @ + 1,
                      !.invocations = @ + 1]
    ELSE [call EXCEPT !.pc = "raised", !.raised = call.last_exception]

\* wrapper(*args): the first attempt of range(max_retries + 1).
wrapper_call(max_retries) ==
    [NoRetryCall EXCEPT !.pc = "calling", !.max_retries = max_retries,
                        !.invocations = 1]

\* `await func(...)` returned or raised.
wrapper_attempt_done(call, outcome) ==
    LET done == [call EXCEPT !.outcomes = Append(@, outcome)]
    IN  IF outcome = "ok" THEN [done EXCEPT !.pc = "returned"]
        ELSE LET clause == ExceptClause(outcome)
             IN  IF clause = "RetryAfter"
                 THEN [done EXCEPT !.pc = "sleeping",
                                   !.last_exception = outcome]
                 ELSE IF clause = "NetworkError"
                 THEN IF done.attempt < done.max_retries
                      THEN [done EXCEPT !.pc = "sleeping",
                                        !.last_exception = outcome]
                      ELSE wrapper_next_attempt(
                               [done EXCEPT !.last_exception = outcome])
                 ELSE [done EXCEPT !.pc = "raised", !.raised = outcome]

NetFrame ==
    /\ UNCHANGED <<now, clock_steps, calls>>
    /\ UNCHANGED rate_vars
    /\ UNCHANGED cache_vars
    /\ UNCHANGED <<quiz_vars, challenge_vars>>

RetryCall(max_retries) ==
    /\ retry_call.pc \in {"idle", "returned", "raised"}
    /\ retry_call' = wrapper_call(max_retries)
    /\ UNCHANGED <<message_buffer, buffer_pass, net_log>>
    /\ NetFrame

AttemptDone(outcome) ==
    /\ retry_call.pc = "calling"
    /\ retry_call' = wrapper_attempt_done(retry_call, outcome)
    /\ UNCHANGED <<message_buffer, buffer_pass, net_log>>
    /\ NetFrame

SleepDone ==
    /\ retry_call.pc = "sleeping"
    /\ retry_call' = wrapper_next_attempt(retry_call)
    /\ UNCHANGED <<message_buffer, buffer_pass, net_log>>
    /\ NetFrame

NextRetry ==
    \/ \E m \in MaxRetriesValues : RetryCall(m)
    \/ \E o \in AttemptOutcomes : AttemptDone(o)
    \/ SleepDone

SpecRetry == InitRate /\ [][NextRetry]_vars

\* ---------------------------------------------------------------------
\* network_manager.py: NetworkManager.message_buffer.  A buffered message
\* is the dict of add_to_buffer; id names the dict object (it is no key of
\* the dict).  buffer_pass is the running process_buffer coroutine: todo
\* holds the part of the copy message_buffer[:] not yet sent, processed
\* its list of the same name.  net_log counts, per message object, the
\* calls of send_message (attempts), and keeps the objects of which a send
\* succeeded (sent) or failed more than 24 h after the timestamp (too_old).
\* ---------------------------------------------------------------------
max_buffer_size == 1000
MaxBuffered == 2
BufferChats == {1}
BufferTexts == {"m"}
BufferDelays == {Secs(24 * 60 * 60), Secs(24 * 60 * 60) + 1}

\* datetime.isoformat() writes the microseconds, fromisoformat reads them.
isoformat(t) == <<"iso", t>>
fromisoformat(text) == text[2]

\* What == of two message dicts compares.
MessageDict(m) ==
    [chat_id |-> m.chat_id, text |-> m.text, timestamp |-> m.timestamp,
     retry_count |-> m.retry_count]

add_to_buffer(buffer, chat_id, text, id, t) ==
    LET room == IF Len(buffer) >= max_buffer_size THEN Tail(buffer)
                ELSE buffer
    IN  Append(room, [id |-> id, chat_id |-> chat_id, text |-> text,
                      timestamp |-> isoformat(t), retry_count |-> 0])

\* message_data['retry_count'] += 1 on the dict object, wherever it is.
SetRetryCount(buffer, id, retry_count) ==
    [i \in 1..Len(buffer) |->
        IF buffer[i].id = id
        THEN [buffer[i] EXCEPT !.retry_count = retry_count]
        ELSE buffer[i]]

\* A failed send gives the message up.
message_abandoned_late(msg, t) ==
    \/ msg.retry_count > 5
    \/ t - fromisoformat(msg.timestamp) > Secs(24 * 60 * 60)

message_abandoned(msg, t) ==
    \/ msg.retry_count >= 5
    \/ t - fromisoformat(msg.timestamp) > Secs(24 * 60 * 60)

\* list.remove(msg): the first element equal to msg goes.
list_remove(buffer, msg) ==
    LET hits == {i \in 1..Len(buffer) :
                    MessageDict(buffer[i]) = MessageDict(msg)}
    IN  IF hits = {} THEN buffer
        ELSE LET first == CHOOSE i \in hits : \A j \in hits : i <= j
             IN  SubSeq(buffer, 1, first - 1)
                     \o SubSeq(buffer, first + 1, Len(buffer))

RECURSIVE remove_processed(_, _)
remove_processed(buffer, processed) ==
    IF processed = << >> THEN buffer
    ELSE remove_processed(list_remove(buffer, Head(processed)),
                          Tail(processed))

\* process_buffer up to its first send_message.
process_buffer(buffer) ==
    IF buffer = << >> THEN NoPass
    ELSE [pc |-> "sending", todo |-> buffer, processed |-> << >>]

\* send_message of the first message of todo returned (ok) or raised:
\* the rest of the loop body, and the removals when the loop is over.
process_buffer_sent(N, ok, t) ==
    LET msg == Head(N.pass.todo)
        failed == [msg EXCEPT !.retry_count = @ + 1]
        buffer == IF ok THEN N.buffer
                  ELSE SetRetryCount(N.buffer, msg.id, failed.retry_count)
        processed == IF ok THEN Append(N.pass.processed, msg)
                     ELSE IF message_abandoned(failed, t)
                     THEN Append(N.pass.processed, failed)
                     ELSE N.pass.processed
        todo == Tail(N.pass.todo)
    IN  IF todo = << >>
        THEN [buffer |-> remove_processed(buffer, processed),
              pass |-> NoPass]
        ELSE [buffer |-> buffer,
              pass |-> [pc |-> "sending", todo |-> todo,
                        processed |-> processed]]

TheBuffer == [buffer |-> message_buffer, pass |-> buffer_pass]

BufferFrame ==
    /\ UNCHANGED <<calls, retry_call>>
    /\ UNCHANGED rate_vars
    /\ UNCHANGED cache_vars
    /\ UNCHANGED <<quiz_vars, challenge_vars>>

AddToBuffer(chat_id, text) ==
    /\ net_log.added < MaxBuffered
    /\ message_buffer' = add_to_buffer(message_buffer, chat_id, text,
                                        net_log.added + 1, now)
    /\ net_log' = [net_log EXCEPT !.added = @ + 1,
                                   !.attempts = Append(@, 0)]
    /\ UNCHANGED <<now, clock_steps, buffer_pass>>
    /\ BufferFrame

ProcessBuffer ==
    /\ buffer_pass.pc = "idle"
    /\ buffer_pass' = process_buffer(message_buffer)
    /\ UNCHANGED <<now, clock_steps, message_buffer, net_log>>
    /\ BufferFrame

SendMessageReturns(ok) ==
    /\ buffer_pass.pc = "sending"
    /\ LET id == Head(buffer_pass.todo).id
            timestamp == Head(buffer_pass.todo).timestamp
            N == process_buffer_sent(TheBuffer, ok, now)
       IN  /\ message_buffer' = N.buffer
           /\ buffer_pass' = N.pass
           /\ net_log' =
                  [net_log EXCEPT
                      !.attempts[id] = @ + 1,
                      !.sent = IF ok THEN @ \cup {id} ELSE @,
                      !.too_old =
                          IF ~ok /\ now - fromisoformat(timestamp)
                                        > Secs(24 * 60 * 60)
                          THEN @ \cup {id} ELSE @]
    /\ UNCHANGED <<now, clock_steps>>
    /\ BufferFrame

AdvanceBuffer(d) ==
    /\ clock_steps < MaxCacheClockSteps
    /\ now' = now + d
    /\ clock_steps' = clock_steps + 1
    /\ UNCHANGED <<message_buffer, buffer_pass, net_log>>
    /\ BufferFrame

NextBuffer ==
    \/ \E c \in BufferChats, x \in BufferTexts : AddToBuffer(c, x)
    \/ ProcessBuffer
    \/ \E ok \in BOOLEAN : SendMessageReturns(ok)
    \/ \E d \in BufferDelays : AdvanceBuffer(d)

SpecBuffer == InitRate /\ [][NextBuffer]_vars

\* ---------------------------------------------------------------------
\* main.py: quiz sessions of the groups (QuizManager, poll answers, daily
\* quiz job).  All handlers are coroutines of one asyncio event loop: the
\* code between two awaits is one atomic step.  A coroutine suspended in an
\* await on Telegram is an element of `awaiting`; a task created with
\* asyncio.create_task that is sleeping its 32 seconds is an element of
\* `tasks`.  A Telegram call returns normally or raises.
\* ---------------------------------------------------------------------
QuizGroups == {1, 2}
QuizUsers == {1, 2}
questions_data == {1, 2}
QuizQuestionCount == 3
OptionIds == {1}
PollOptionIds == {<< >>, <<0>>, <<1>>}
UnknownPoll == 0
MaxSessions == 1
MaxPollAnswers == 1

Min(a, b) == IF a < b THEN a ELSE b

\* random.sample(questions_data, min(count, len(questions_data))): every
\* ordered selection without repetition of that length.
get_random_questions(count) ==
    LET n == Min(count, Cardinality(questions_data))
    IN  { s \in [1..n -> questions_data] :
            \A i, j \in 1..n : i # j => s[i] # s[j] }

TheQuiz ==
    [quiz_sessions |-> quiz_sessions, active_polls |-> active_polls,
     group_scores |-> group_scores, active_groups |-> active_groups,
     awaiting |-> awaiting, tasks |-> tasks, quiz_log |-> quiz_log]

NoCoroutine ==
    [kind |-> "none", group |-> 0, session |-> 0, number |-> 0, total |-> 0,
     correct |-> 0, size |-> 0,
     pending |-> {}]

Suspend(Q, co) == [Q EXCEPT !.awaiting = @ \cup {co}]
Resume(Q, co) == [Q EXCEPT !.awaiting = @ \ {co}]

\* end_quiz up to its first await: nothing without a session; the result
\* message when nobody took part, else the first get_chat_member of the
\* loop over the participants.
end_quiz(Q, group_id) ==
    IF group_id \notin DOMAIN Q.quiz_sessions THEN Q
    ELSE LET session == Q.quiz_sessions[group_id]
         IN  IF session.participants = {}
             THEN Suspend(Q, [NoCoroutine EXCEPT !.kind = "results",
                                                 !.group = group_id,
                                                 !.session = session.session_id])
             ELSE Suspend(Q, [NoCoroutine EXCEPT
                                 !.kind = "members", !.group = group_id,
                                 !.session = session.session_id,
                                 !.size = Cardinality(session.participants)])

\* end_quiz after one get_chat_member (its own failure is swallowed by the
\* inner except): the loop asks the set iterator for the next participant,
\* which raises RuntimeError when the set changed size during the await;
\* the outer except swallows it and the session is not deleted.
end_quiz_next_member(Q, co) ==
    LET Q1 == Resume(Q, co)
        group_id == co.group
    IN  IF group_id \notin DOMAIN Q.quiz_sessions THEN Q1
        ELSE IF Cardinality(Q.quiz_sessions[group_id].participants) # co.size
             THEN Q1
             ELSE IF co.number + 1 < co.size
                  THEN Suspend(Q1, [co EXCEPT !.number = @ + 1])
                  ELSE Suspend(Q1, [co EXCEPT !.kind = "results",
                                              !.number = 0, !.size = 0])

\* end_quiz after the send_message of the results: the session is deleted
\* only when the send returned; an exception skips the del.
end_quiz_results_sent(Q, co, ok) ==
    LET Q1 == Resume(Q, co)
    IN  IF ok
        THEN [Q1 EXCEPT !.quiz_sessions =
                 IF co.group \in DOMAIN @ THEN Remove(@, co.group) ELSE @]
        ELSE Q1

\* send_quiz_question up to the await of send_poll.
send_quiz_question(Q, group_id, new_correct_id) ==
    IF group_id \notin DOMAIN Q.quiz_sessions THEN Q
    ELSE LET session == Q.quiz_sessions[group_id]
             current_q == session.current_question
         IN  IF current_q >= session.total_questions
             THEN end_quiz(Q, group_id)
             ELSE Suspend(Q, [NoCoroutine EXCEPT
                                 !.kind = "send_poll", !.group = group_id,
                                 !.session = session.session_id,
                                 !.number = current_q + 1,
                                 !.total = session.total_questions,
                                 !.correct = new_correct_id])

\* send_quiz_question after send_poll, scheduling the next question after
\* every poll, the last one included.
send_quiz_question_always_next(Q, co, ok, poll_id) ==
    LET Q1 == Resume(Q, co)
    IN  IF ~ok THEN Q1
        ELSE [Q1 EXCEPT
                !.active_polls =
                    Put(@, poll_id, [group_id |-> co.group,
                                     question_number |-> co.number,
                                     correct_option_id |-> co.correct]),
                !.tasks = @ \cup
                    {[kind |-> "next", group |-> co.group, poll |-> poll_id]},
                !.quiz_log.polls = @ + 1,
                !.quiz_log.sent =
                    Put(@, co.session,
                        IF co.session \in DOMAIN @
                        THEN Append(@[co.session], co.number)
                        ELSE <<co.number>>)]

\* send_quiz_question after send_poll: on success the poll is stored and
\* the next question or the end is scheduled; an exception is swallowed and
\* nothing is scheduled.
send_quiz_question_poll_sent(Q, co, ok, poll_id) ==
    LET Q1 == Resume(Q, co)
    IN  IF ~ok THEN Q1
        ELSE [Q1 EXCEPT
                !.active_polls =
                    Put(@, poll_id, [group_id |-> co.group,
                                     question_number |-> co.number,
                                     correct_option_id |-> co.correct]),
                !.tasks = @ \cup
                    {[kind |-> IF co.number < co.total THEN "next" ELSE "end",
                      group |-> co.group, poll |-> poll_id]},
                !.quiz_log.polls = @ + 1,
                !.quiz_log.sent =
                    Put(@, co.session,
                        IF co.session \in DOMAIN @
                        THEN Append(@[co.session], co.number)
                        ELSE <<co.number>>)]

\* _send_next_question, run by the task of _delayed_next_question.
send_next_question(Q, group_id, new_correct_id) ==
    IF group_id \in DOMAIN Q.quiz_sessions
    THEN send_quiz_question(
             [Q EXCEPT !.quiz_sessions[group_id].current_question = @ + 1],
             group_id, new_correct_id)
    ELSE Q

\* start_quiz_in_group without the test for a session of the group.
start_quiz_in_group_unchecked(Q, group_id, is_daily, selected_questions) ==
    LET session_id == Q.quiz_log.started + 1
    IN  Suspend(
          [Q EXCEPT
             !.group_scores =
                 IF group_id \in DOMAIN @ THEN @
                 ELSE Put(@, group_id, EmptyMap),
             !.active_groups = @ \cup {group_id},
             !.quiz_sessions =
                 Put(@, group_id,
                     [session_id |-> session_id,
                      questions |-> selected_questions,
                      current_question |-> 0,
                      total_questions |-> Len(selected_questions),
                      participants |-> {},
                      is_daily |-> is_daily]),
             !.quiz_log.started = session_id,
             !.quiz_log.sent = Put(@, session_id, << >>)],
          [NoCoroutine EXCEPT !.kind = "intro", !.group = group_id,
                              !.session = session_id])

\* start_quiz_in_group up to the await of the introduction message.  With
\* a session already present it only answers the trigger message.
start_quiz_in_group(Q, group_id, is_daily, selected_questions) ==
    IF group_id \in DOMAIN Q.quiz_sessions THEN Q
    ELSE LET session_id == Q.quiz_log.started + 1
         IN  Suspend(
               [Q EXCEPT
                  !.group_scores =
                      IF group_id \in DOMAIN @ THEN @
                      ELSE Put(@, group_id, EmptyMap),
                  !.active_groups = @ \cup {group_id},
                  !.quiz_sessions =
                      Put(@, group_id,
                          [session_id |-> session_id,
                           questions |-> selected_questions,
                           current_question |-> 0,
                           total_questions |-> Len(selected_questions),
                           participants |-> {},
                           is_daily |-> is_daily]),
                  !.quiz_log.started = session_id,
                  !.quiz_log.sent = Put(@, session_id, << >>)],
               [NoCoroutine EXCEPT !.kind = "intro", !.group = group_id,
                                   !.session = session_id])

\* start_quiz_in_group after the introduction message: the first question
\* follows when it was sent; an exception is swallowed.
start_quiz_intro_sent(Q, co, ok, new_correct_id) ==
    LET Q1 == Resume(Q, co)
    IN  IF ok THEN send_quiz_question(Q1, co.group, new_correct_id) ELSE Q1

\* handle_poll_answer counting every answer that chose an option.
handle_poll_answer_any_option(Q, poll_id, user_id, option_ids) ==
    IF poll_id \notin DOMAIN Q.active_polls THEN Q
    ELSE LET poll_info == Q.active_polls[poll_id]
             group_id == poll_info.group_id
         IN  IF group_id \notin DOMAIN Q.quiz_sessions THEN Q
             ELSE LET scores == Q.group_scores[group_id]
                      score == IF user_id \in DOMAIN scores
                               THEN scores[user_id] ELSE 0
                      earned == IF option_ids # << >> THEN 1 ELSE 0
                  IN  [Q EXCEPT
                         !.quiz_sessions[group_id].participants =
                             @ \cup {user_id},
                         !.group_scores[group_id] =
                             Put(@, user_id, score + earned)]

handle_poll_answer(Q, poll_id, user_id, option_ids) ==
    IF poll_id \notin DOMAIN Q.active_polls THEN Q
    ELSE LET poll_info == Q.active_polls[poll_id]
             group_id == poll_info.group_id
             correct_option_id == poll_info.correct_option_id
         IN  IF group_id \notin DOMAIN Q.quiz_sessions THEN Q
             ELSE LET scores == Q.group_scores[group_id]
                      score == IF user_id \in DOMAIN scores
                               THEN scores[user_id] ELSE 0
                      earned == IF option_ids # << >>
                                   /\ option_ids[1] = correct_option_id
                                THEN 1 ELSE 0
                  IN  [Q EXCEPT
                         !.quiz_sessions[group_id].participants =
                             @ \cup {user_id},
                         !.group_scores[group_id] =
                             Put(@, user_id, score + earned)]

\* ---------------------------------------------------------------------
\* Actions of the quiz sessions
\* ---------------------------------------------------------------------
QuizStep(kind, group) == [kind |-> kind, group |-> group]

SetQuiz(Q, step) ==
    /\ quiz_sessions' = Q.quiz_sessions
    /\ active_polls' = Q.active_polls
    /\ group_scores' = Q.group_scores
    /\ active_groups' = Q.active_groups
    /\ awaiting' = Q.awaiting
    /\ tasks' = Q.tasks
    /\ quiz_log' = [Q.quiz_log EXCEPT !.last = step]

QuizFrame ==
    /\ UNCHANGED <<now, clock_steps>>
    /\ UNCHANGED rate_vars
    /\ UNCHANGED cache_vars
    /\ UNCHANGED <<challenge_vars, net_vars>>

\* A new session needs room under the bound; a call for a group that has a
\* session is always possible.
MayStart(group_id) ==
    \/ group_id \in DOMAIN quiz_sessions
    \/ quiz_log.started < MaxSessions

\* /quiz sent in a group.
QuizCommand(group_id, selected_questions) ==
    /\ MayStart(group_id)
    /\ SetQuiz(start_quiz_in_group(TheQuiz, group_id, FALSE,
                                   selected_questions),
               QuizStep(IF group_id \in DOMAIN quiz_sessions
                        THEN "start_refused" ELSE "start", group_id))
    /\ UNCHANGED calls
    /\ QuizFrame

\* The introduction message of start_quiz_in_group returns or raises.
IntroReturns(co, ok, new_correct_id) ==
    /\ co \in awaiting
    /\ co.kind = "intro"
    /\ SetQuiz(start_quiz_intro_sent(TheQuiz, co, ok, new_correct_id),
               QuizStep("intro", co.group))
    /\ UNCHANGED calls
    /\ QuizFrame

\* send_poll returns (Telegram gives the poll a fresh id) or raises.
SendPollReturns(co, ok) ==
    /\ co \in awaiting
    /\ co.kind = "send_poll"
    /\ LET poll_id == quiz_log.polls + 1
       IN  SetQuiz(send_quiz_question_poll_sent(TheQuiz, co, ok, poll_id),
                   QuizStep(IF ok THEN "poll" ELSE "poll_failed", co.group))
    /\ UNCHANGED calls
    /\ QuizFrame

\* The 32 seconds of _delayed_next_question or _delayed_quiz_end are over.
TaskFires(task, new_correct_id) ==
    /\ task \in tasks
    /\ LET Q1 == [TheQuiz EXCEPT !.tasks = @ \ {task}]
       IN  SetQuiz(IF task.kind = "next"
                   THEN send_next_question(Q1, task.group, new_correct_id)
                   ELSE end_quiz(Q1, task.group),
                   QuizStep(task.kind, task.group))
    /\ UNCHANGED calls
    /\ QuizFrame

\* One get_chat_member of end_quiz returns or raises.
MemberReturns(co) ==
    /\ co \in awaiting
    /\ co.kind = "members"
    /\ SetQuiz(end_quiz_next_member(TheQuiz, co),
               QuizStep("member", co.group))
    /\ UNCHANGED calls
    /\ QuizFrame

\* The result message of end_quiz returns or raises.
ResultsReturn(co, ok) ==
    /\ co \in awaiting
    /\ co.kind = "results"
    /\ SetQuiz(end_quiz_results_sent(TheQuiz, co, ok),
               QuizStep(IF ok THEN "end_quiz" ELSE "end_failed", co.group))
    /\ UNCHANGED calls
    /\ QuizFrame

\* A member answers a poll (or Telegram reports an answer to a poll the bot
\* does not know).
HandlePollAnswer(poll_id, user_id, option_ids) ==
    /\ calls < MaxPollAnswers
    /\ SetQuiz(handle_poll_answer(TheQuiz, poll_id, user_id, option_ids),
               [kind |-> "poll_answer", group |-> 0, poll |-> poll_id,
                user |-> user_id, option_ids |-> option_ids])
    /\ calls' = calls + 1
    /\ QuizFrame

\* /start sent in a group: the group is registered for the daily quiz.
StartCommand(group_id) ==
    /\ SetQuiz([TheQuiz EXCEPT
                   !.group_scores = IF group_id \in DOMAIN @ THEN @
                                    ELSE Put(@, group_id, EmptyMap),
                   !.active_groups = @ \cup {group_id}],
               QuizStep("start_command", group_id))
    /\ UNCHANGED calls
    /\ QuizFrame

DailyCoroutines == {co \in awaiting : co.kind \in {"daily_loop",
                                                  "daily_message",
                                                  "daily_sleep"}}

\* daily_quiz_job up to its loop: _cleanup_inactive_groups drops the groups
\* whose get_chat raised, then the loop runs over a copy of active_groups.
\* The job runs once a day: no other run of it is in flight.
DailyQuizJob(inactive_groups) ==
    /\ DailyCoroutines = {}
    /\ inactive_groups \subseteq active_groups
    /\ LET Q1 == [TheQuiz EXCEPT !.active_groups = @ \ inactive_groups]
       IN  SetQuiz(IF Q1.active_groups = {} THEN Q1
                   ELSE Suspend(Q1, [NoCoroutine EXCEPT
                                        !.kind = "daily_loop",
                                        !.pending = Q1.active_groups]),
                   QuizStep("daily_job", 0))
    /\ UNCHANGED calls
    /\ QuizFrame

\* The loop continues with the groups left, or the job is over.
DailyContinue(Q, co) ==
    IF co.pending = {} THEN Q
    ELSE Suspend(Q, [NoCoroutine EXCEPT !.kind = "daily_loop",
                                        !.pending = co.pending])

\* One iteration of the loop of daily_quiz_job, up to the announcement.
DailyLoop(co, group_id) ==
    /\ co \in awaiting
    /\ co.kind = "daily_loop"
    /\ group_id \in co.pending
    /\ LET Q1 == Resume(TheQuiz, co)
           rest == [co EXCEPT !.pending = @ \ {group_id}]
       IN  SetQuiz(IF group_id \notin DOMAIN quiz_sessions
                   THEN Suspend(Q1, [rest EXCEPT !.kind = "daily_message",
                                                 !.group = group_id])
                   ELSE DailyContinue(Q1, rest),
                   QuizStep("daily_loop", group_id))
    /\ UNCHANGED calls
    /\ QuizFrame

\* The announcement returns (the job sleeps 10 seconds) or raises (the
\* group leaves active_groups and the loop goes on).
DailyMessageReturns(co, ok) ==
    /\ co \in awaiting
    /\ co.kind = "daily_message"
    /\ LET Q1 == Resume(TheQuiz, co)
       IN  SetQuiz(IF ok
                   THEN Suspend(Q1, [co EXCEPT !.kind = "daily_sleep"])
                   ELSE DailyContinue(
                            [Q1 EXCEPT !.active_groups = @ \ {co.group}],
                            co),
                   QuizStep(IF ok THEN "daily_message" ELSE "daily_failed",
                            co.group))
    /\ UNCHANGED calls
    /\ QuizFrame

\* The 10 seconds are over: start_quiz_in_group(is_daily=True).  The job
\* awaits it before its next iteration; the groups being independent, the
\* iteration is allowed from here on.
DailySleepReturns(co, selected_questions) ==
    /\ co \in awaiting
    /\ co.kind = "daily_sleep"
    /\ MayStart(co.group)
    /\ SetQuiz(DailyContinue(
                   start_quiz_in_group(Resume(TheQuiz, co), co.group, TRUE,
                                       selected_questions),
                   co),
               QuizStep(IF co.group \in DOMAIN quiz_sessions
                        THEN "start_refused" ELSE "start", co.group))
    /\ UNCHANGED calls
    /\ QuizFrame

QuizChain ==
    \/ \E g \in QuizGroups, s \in get_random_questions(QuizQuestionCount) :
           QuizCommand(g, s)
    \/ \E co \in awaiting, ok \in BOOLEAN, c \in OptionIds :
           IntroReturns(co, ok, c)
    \/ \E co \in awaiting, ok \in BOOLEAN : SendPollReturns(co, ok)
    \/ \E task \in tasks, c \in OptionIds : TaskFires(task, c)
    \/ \E co \in awaiting, ok \in BOOLEAN : ResultsReturn(co, ok)

\* Quiz sessions with the members' answers.
NextQuiz ==
    \/ QuizChain
    \/ \E co \in awaiting : MemberReturns(co)
    \/ \E p \in DOMAIN active_polls \cup {UnknownPoll}, u \in QuizUsers,
          o \in PollOptionIds : HandlePollAnswer(p, u, o)

SpecQuiz == InitRate /\ [][NextQuiz]_vars

\* Quiz sessions started by /quiz and by the daily quiz job.
NextDailyQuiz ==
    \/ QuizChain
    \/ \E g \in QuizGroups : StartCommand(g)
    \/ \E inactive \in SUBSET QuizGroups : DailyQuizJob(inactive)
    \/ \E co \in awaiting, g \in QuizGroups : DailyLoop(co, g)
    \/ \E co \in awaiting, ok \in BOOLEAN : DailyMessageReturns(co, ok)
    \/ \E co \in awaiting,
          s \in get_random_questions(QuizQuestionCount) :
           DailySleepReturns(co, s)

SpecDailyQuiz == InitRate /\ [][NextDailyQuiz]_vars

----------------------------------------------------------------------------
(* Claims about the rate limiter *)

\* The count and window_start that is_user_allowed(user, command) reads.
WindowUsedFor(user, command) ==
    IF user \in DOMAIN user_requests
    THEN <<user_requests[user].count, user_requests[user].window_start>>
    ELSE <<0, 0>>

\* C4: rate windows are kept per (user, operation) pair: a call
\* is_user_allowed(user, B) for a configured operation B never changes the
\* count or window_start that is_user_allowed(user, A) uses for another
\* configured operation A.
C4_WindowsPerUserAndOperation ==
    [][\A u \in RateUsers : \A a, b \in DOMAIN user_limits :
          ( /\ a # b
            /\ calls' = calls + 1
            /\ last_call'.kind = "is_user_allowed"
            /\ last_call'.user = u
            /\ last_call'.command = b )
          => WindowUsedFor(u, a)' = WindowUsedFor(u, a)]_vars

\* C5: for a limit of N requests per W seconds and a user with no window
\* yet, exactly the first N calls of is_user_allowed for that operation
\* within W seconds of the first are allowed and the next is denied, and the
\* first call at or after window_start + W is allowed and starts a fresh
\* window with count 1: every call is decided, and leaves the count and
\* window_start, as the fixed window of its (user, operation) pair does.
C5_ExactlyNPerWindow ==
    last_call.kind = "is_user_allowed" =>
        /\ last_call.allowed = ref.allowed
        /\ ( /\ last_call.command \in DOMAIN user_limits
             /\ last_call.user \in DOMAIN user_requests )
           => LET w == ref.windows[<<last_call.user, last_call.command>>]
                  e == user_requests[last_call.user]
              IN  e.count = w.count /\ e.window_start = w.window_start

\* C6: whenever is_user_allowed or is_globally_allowed denies a call, the
\* reported retry_after_seconds is >= 0 and the same call made exactly
\* retry_after_seconds later is allowed.
C6_RetryAfterThenAllowed ==
    /\ ~last_call.allowed => last_call.reset_time >= 0
    /\ last_call.retest => last_call.allowed

\* C7: when is_user_allowed denies a call, the reported retry_after_seconds
\* equals ceil(window_start + window_length - now).
C7_RetryAfterIsCeil ==
    (last_call.kind = "is_user_allowed" /\ ~last_call.allowed)
        => last_call.reset_time = Ceil(last_call.remaining)

\* C8: for an operation with no configured limit, is_user_allowed and
\* is_globally_allowed return (True, 0) on every call, whatever the calls
\* made before it.
C8_UnconfiguredAlwaysAllowed ==
    /\ ( /\ last_call.kind = "is_user_allowed"
         /\ last_call.command \notin DOMAIN user_limits )
       => (last_call.allowed /\ last_call.reset_time = 0)
    /\ ( /\ last_call.kind = "is_globally_allowed"
         /\ last_call.command \notin DOMAIN global_limits )
       => (last_call.allowed /\ last_call.reset_time = 0)

\* An unconfigured call made by a user whose window is full, at a time
\* when that window is still running.
C8_Witness ==
    /\ last_call.kind = "is_user_allowed"
    /\ last_call.command = "help"
    /\ last_call.user \in DOMAIN user_requests
    /\ user_requests[last_call.user].count >= 5
    /\ last_call.at - user_requests[last_call.user].window_start < Secs(60)

\* C9: a handler guarded by rate_limit checks the per-user limit first and
\* the global limit only when the per-user check allowed: a call denied by
\* the per-user check leaves the global windows unchanged and does not run
\* the handler, and the handler of an identified user runs only when both
\* checks allowed.
C9_UserLimitBeforeGlobal ==
    [][(calls' = calls + 1 /\ last_call'.kind = "rate_limit"
            /\ last_call'.user # NoUser)
        => /\ last_call'.denied_by = "user"
              => /\ global_requests' = global_requests
                 /\ ~last_call'.global_checked
                 /\ ~last_call'.handler_ran
           /\ last_call'.denied_by = "global"
              => /\ user_requests' # user_requests
                 /\ ~last_call'.handler_ran
           /\ last_call'.handler_ran => last_call'.denied_by = "none"]_vars

\* Two calls of one user at the same instant: the second is denied by the
\* per-user check and the global window still counts the first alone.
C9_Witness ==
    /\ last_call.kind = "rate_limit"
    /\ last_call.denied_by = "user"
    /\ last_call.command \in DOMAIN global_requests
    /\ global_requests[last_call.command].count = 1
    /\ global_requests[last_call.command].last_time = last_call.at

----------------------------------------------------------------------------
(* Claims about the scoring service and the cache *)

\* C1: after a scoring write (update_user_answer returning a result), every
\* ranking-page cache entry that was present before the write, such as the
\* one under "ranking_page:1:20:False", is absent from the cache.
C1_RankingPagesAbsentAfterWrite ==
    [][( /\ calls' = calls + 1
         /\ last_op'.kind = "update_user_answer"
         /\ last_op'.ret # None )
        => \A k \in DOMAIN cache :
              k[1] = "ranking_page"
                 => (k \notin DOMAIN cache' \/ cache'[k] # cache[k])]_vars

\* C2: a call of get_ranking_paginated made after update_user_answer has
\* written a score never returns a ranking that was computed from the
\* store before that write.
C2_NoRankingFromBeforeWrite ==
    last_op.kind = "get_ranking_paginated" => last_op.ret.ver = db_version

\* C3: when update_user_answer returns a result the cache holds no entry
\* under "global_stats", so the statistics the cache holds and the ones
\* get_global_stats returns are always computed from the store as it is
\* after the last scoring write.
C3_GlobalStatsAbsentAfterWrite ==
    /\ (last_op.kind = "update_user_answer" /\ last_op.ret # None)
          => GlobalStatsKey \notin DOMAIN cache
    /\ GlobalStatsKey \in DOMAIN cache
          => cache[GlobalStatsKey].value.ver = db_version
    /\ last_op.kind = "get_global_stats" => last_op.ret.ver = db_version

\* A scoring write made while the statistics were cached.
C3_Witness ==
    /\ last_op.kind = "update_user_answer"
    /\ last_op.present
    /\ GlobalStatsKey \notin DOMAIN cache

\* C10: after set(k, v, ttl=t) with no later set, delete or clear of k,
\* get(k) returns v when queried less than t seconds after the set and
\* None when queried t seconds or more after it, whether or not the entry
\* is still in the dictionary.
C10_GetUntilTtl ==
    (last_op.kind = "cache_get" /\ last_op.key \in DOMAIN cache_writes)
        => LET w == cache_writes[last_op.key]
           IN  last_op.ret = IF now - w.at < Secs(w.ttl) THEN w.value
                             ELSE None

\* A get made exactly t seconds after the set, the entry still being in
\* the dictionary.
C10_Witness ==
    /\ last_op.kind = "cache_get"
    /\ last_op.key \in DOMAIN cache_writes
    /\ now - cache_writes[last_op.key].at = Secs(cache_writes[last_op.key].ttl)
    /\ last_op.present
    /\ last_op.ret = None

\* C11: after cleanup_expired() run at time now, no entry with
\* expires_at <= now remains in the cache, and every entry with
\* expires_at > now is still present with its value and expiry unchanged.
C11_CleanupRemovesExactlyExpired ==
    [][( /\ calls' = calls + 1
         /\ last_op'.kind = "cache_cleanup_expired" )
        => /\ \A k \in DOMAIN cache' : cache'[k].expiry > now
           /\ \A k \in DOMAIN cache :
                 cache[k].expiry > now
                    => (k \in DOMAIN cache' /\ cache'[k] = cache[k])]_vars

\* A cleanup run at the very instant an entry expires, which removed that
\* entry and kept another one that expires later.
C11_Witness ==
    /\ last_op.kind = "cache_cleanup_expired"
    /\ last_op.present
    /\ \E k \in DOMAIN cache_writes \ DOMAIN cache :
          now = cache_writes[k].at + Secs(cache_writes[k].ttl)
    /\ \E k \in DOMAIN cache : cache[k].expiry > now

\* C12: set(k, v1) followed by set(k, v2) makes get(k) return v2, and the
\* entry's expiry is determined by the second set alone: every entry of the
\* dictionary holds the value of the last set of its key and expires ttl
\* seconds after that set, whatever entry the set replaced, and a get that
\* finds the entry returns that value.
C12_LastSetWins ==
    /\ \A k \in DOMAIN cache :
          /\ k \in DOMAIN cache_writes
          /\ cache[k].value = cache_writes[k].value
          /\ cache[k].expiry
                = cache_writes[k].at + Secs(cache_writes[k].ttl)
    /\ (last_op.kind = "cache_get" /\ last_op.key \in DOMAIN cache)
          => last_op.ret = cache_writes[last_op.key].value

\* A get of a key that was set twice, with two values and two expiries:
\* it returns the second value.
C12_Witness ==
    /\ last_op.kind = "cache_get"
    /\ last_op.key \in DOMAIN cache
    /\ LET w == cache_writes[last_op.key]
       IN  /\ w.replaced # << >>
           /\ w.replaced[1].value # w.value
           /\ w.replaced[1].expiry # cache[last_op.key].expiry
           /\ last_op.ret = w.value

\* C13: delete(k) on a key that is absent leaves the whole cache unchanged
\* (and returns normally), and delete(k) applied twice leaves the same
\* cache as delete(k) applied once: after any delete(k) the key is absent
\* and one more delete(k) would change nothing.
C13_DeleteAbsentIsNoOp ==
    [][( /\ calls' = calls + 1
         /\ last_op'.kind = "cache_delete" )
        => /\ last_op'.key \notin DOMAIN cache => cache' = cache
           /\ last_op'.ret = None
           /\ last_op'.key \notin DOMAIN cache'
           /\ cache_delete(cache', last_op'.key) = cache'
           /\ \A k \in DOMAIN cache \ {last_op'.key} :
                 k \in DOMAIN cache' /\ cache'[k] = cache[k]]_vars

\* A delete of a key that has no entry, made while the cache holds an
\* entry under another key.
C13_Witness ==
    /\ last_op.kind = "cache_delete"
    /\ ~last_op.present
    /\ last_op.key \notin DOMAIN cache
    /\ cache # EmptyMap

\* The recent-activity counter as a reader sees it now: the int stored
\* under "recent_activity" while that entry has not expired, else 0.
RecentActivityNow ==
    IF ActivityKey \in DOMAIN cache /\ now < cache[ActivityKey].expiry
    THEN OrZero(cache[ActivityKey].value)
    ELSE 0

\* C14: when get_ranking_paginated misses the cache and stores a recomputed
\* ranking page, the TTL it uses is 30 s if the recent-activity counter is
\* > 10, 60 s if it is > 5 and <= 10, and 180 s otherwise (an absent counter
\* counts as 0).
C14_AdaptiveTtl ==
    (last_op.kind = "get_ranking_paginated" /\ ~last_op.hit)
        => /\ last_op.key \in DOMAIN cache
           /\ cache[last_op.key].value = last_op.ret
           /\ cache[last_op.key].expiry - now =
                 Secs(CASE RecentActivityNow > 10 -> 30
                        [] RecentActivityNow > 5 /\ RecentActivityNow <= 10 -> 60
                        [] OTHER -> 180)

\* A ranking page recomputed while the counter is above 10, stored for
\* 30 s.
C14_Witness ==
    /\ last_op.kind = "get_ranking_paginated"
    /\ ~last_op.hit
    /\ RecentActivityNow > 10
    /\ cache[last_op.key].expiry = now + Secs(30)

\* The same with an absent counter: the page is stored for 180 s.
C14_WitnessQuiet ==
    /\ last_op.kind = "get_ranking_paginated"
    /\ ~last_op.hit
    /\ ActivityKey \notin DOMAIN cache
    /\ cache[last_op.key].expiry = now + Secs(180)

\* C15: is_globally_allowed applies the fixed-window rule per operation
\* with no user dimension: every global check, whichever user's handler
\* makes it, is decided as the fixed window of its command decides, leaves
\* the count and window start of that window, and so admits at most N calls
\* per window; the first call at or after window_start + W starts a fresh
\* window with count 1.
C15_GlobalFixedWindow ==
    ( /\ last_call.global_checked
      /\ last_call.command \in DOMAIN global_limits )
        => /\ (last_call.denied_by # "global") = ref.allowed
           /\ last_call.command \in DOMAIN global_requests
                 => LET w == ref.windows[<<NoUser, last_call.command>>]
                        e == global_requests[last_call.command]
                    IN  /\ e.count = w.count
                        /\ e.last_time = w.window_start
                        /\ e.count >= 1
                        /\ e.count <= global_limits[last_call.command][1]

\* A handler of user 2 denied by the global limit, the running window
\* having been filled by one call of user 1 and one of user 2.
C15_Witness ==
    /\ last_call.kind = "rate_limit"
    /\ last_call.denied_by = "global"
    /\ last_call.user = 2
    /\ DOMAIN user_requests = {1, 2}
    /\ user_requests[1].count = 1
    /\ user_requests[2].count = 2
    /\ global_requests[last_call.command].count = 2
    /\ global_requests[last_call.command].last_time < last_call.at

\* C16: once is_user_allowed has denied a call for a user and operation,
\* every further call for that user and operation made before
\* window_start + window_length is also denied, and each denied call leaves
\* the recorded count and window_start unchanged.
C16_DeniedUntilWindowEnds ==
    [][( /\ calls' = calls + 1
         /\ last_call'.kind = "is_user_allowed" )
        => LET u == last_call'.user
               c == last_call'.command
               k == <<u, c>>
           IN  /\ ( /\ k \in DOMAIN ref.denied
                    /\ now < ref.denied[k].window_start
                                + Secs(user_limits[c][2]) )
                     => ~last_call'.allowed
               /\ ~last_call'.allowed
                     => /\ u \in DOMAIN user_requests
                        /\ user_requests'[u].count = user_requests[u].count
                        /\ user_requests'[u].window_start
                              = user_requests[u].window_start]_vars

\* A call denied some time after the first denial of its user and
\* operation, in the same window.
C16_Witness ==
    /\ last_call.kind = "is_user_allowed"
    /\ ~last_call.allowed
    /\ LET k == <<last_call.user, last_call.command>>
       IN  /\ k \in DOMAIN ref.denied
           /\ ref.denied[k].at < last_call.at
           /\ ref.denied[k].window_start
                 = user_requests[last_call.user].window_start
           /\ user_requests[last_call.user].count
                 >= user_limits[last_call.command][1]

\* C17: a cache miss or expiry is distinguishable from a stored falsy
\* value: when an entry is in the cache and has not expired, whatever its
\* value (0, an empty list, None), get and the readers built on it
\* (cache_result, the daily leaderboard) treat it as a hit: they return the
\* stored value, recompute nothing and leave the cache as it is.
C17_FalsyValueIsAHit ==
    [][( /\ calls' = calls + 1
         /\ last_op'.kind \in {"cache_get", "cache_result",
                                "get_daily_leaderboard"}
         /\ last_op'.key \in DOMAIN cache
         /\ now < cache[last_op'.key].expiry )
        => /\ last_op'.hit
           /\ last_op'.ret = cache[last_op'.key].value
           /\ cache' = cache]_vars

\* C18: get(k) changes nothing in the cache except that it removes the
\* entry of k when that entry has expired: the entries of all other keys,
\* and the entry of k when it has not expired, keep their value and expiry,
\* and no entry appears.
C18_GetOnlyEvictsItsKey ==
    [][( /\ calls' = calls + 1
         /\ last_op'.kind = "cache_get" )
        => LET k == last_op'.key
           IN  /\ DOMAIN cache' \subseteq DOMAIN cache
               /\ \A j \in DOMAIN cache \ {k} :
                     j \in DOMAIN cache' /\ cache'[j] = cache[j]
               /\ (k \in DOMAIN cache /\ now < cache[k].expiry)
                     => (k \in DOMAIN cache' /\ cache'[k] = cache[k])
               /\ (k \in DOMAIN cache /\ now >= cache[k].expiry)
                     => k \notin DOMAIN cache']_vars

\* A get that evicted the expired entry of its key and left in the cache
\* the expired entry of another key.
C18_Witness ==
    /\ last_op.kind = "cache_get"
    /\ last_op.present
    /\ last_op.ret = None
    /\ last_op.key \notin DOMAIN cache
    /\ \E j \in DOMAIN cache : now >= cache[j].expiry

\* C19: RateLimiter.cleanup_expired does not affect admission: whatever
\* calls of is_user_allowed and is_globally_allowed are made, and wherever
\* cleanup_expired runs between them, each call returns the allowed/denied
\* result and the retry_after value it returns when no cleanup ever runs.
C19_CleanupKeepsAdmission ==
    last_call.kind \in {"is_user_allowed", "is_globally_allowed"}
        => /\ last_call.allowed = ref.nc_allowed
           /\ last_call.reset_time = ref.nc_reset_time

\* A call of is_user_allowed whose window a cleanup had removed, the table
\* that is never cleaned still holding it.
C19_Witness ==
    /\ last_call.kind = "is_user_allowed"
    /\ last_call.command \in DOMAIN user_limits
    /\ ref.nc_cleaned
    /\ last_call.allowed
    /\ user_requests[last_call.user] = ref.nc_users[last_call.user]

\* C20: within one update_user_answer request the cache invalidation
\* (ranking entries and global_stats) happens after the score write
\* db.update_user_score and before the function returns, with nothing
\* running between the write and the invalidation: the invalidation runs on
\* the store already written, the return follows the write and the
\* invalidation in that order, every step taken while a request is in
\* progress is the next statement of that request, and the request ends
\* in the state the whole handler yields.
C20_InvalidateAfterWriteBeforeReturn ==
    [][request.pc # 0
        => /\ request'.pc = request.pc + 1 \/ request' = NoRequest
           /\ update_user_answer_steps[request.pc] = "invalidate"
                 => /\ request.done = <<"write">>
                    /\ db_version = request.ver0 + 1
                    /\ user_scores[request.user_id] = request.new_score
                    /\ GlobalStatsKey \notin DOMAIN cache'
                    /\ \A k \in DOMAIN cache' : ~StartsWithRanking(k)
           /\ request' = NoRequest
                 => /\ request.done = <<"write", "invalidate">>
                    /\ last_op'.kind = "update_user_answer"
                    /\ cache' = request.whole.C.cache
                    /\ user_scores' = request.whole.scores
                    /\ user_grades' = request.whole.grades
                    /\ user_streaks' = request.whole.streaks
                    /\ db_version' = request.whole.ver
                    /\ last_op'.ret = request.whole.ret]_vars

\* A request between its invalidation and its return: the score is
\* written and the statistics that were cached when it began are gone.
C20_Witness ==
    /\ request.pc # 0
    /\ request.done = <<"write", "invalidate">>
    /\ request.had_stats
    /\ db_version = request.ver0 + 1
    /\ GlobalStatsKey \notin DOMAIN cache

\* C21: each successful answer event (update_user_answer) increments the
\* "recent_activity" counter by exactly 1, starting from 0 when the key is
\* absent or expired, and stores it with a TTL of 300 s; no other operation
\* changes the counter except by removing it, so the counter read at any
\* time is the number of answer events since the key was last absent.
C21_ActivityCountsAnswers ==
    [][IF calls' = calls + 1 /\ last_op'.kind = "update_user_answer"
       THEN LET before ==
                    IF ActivityKey \in DOMAIN cache
                         /\ now < cache[ActivityKey].expiry
                    THEN cache[ActivityKey].value.v
                    ELSE 0
            IN  /\ ActivityKey \in DOMAIN cache'
                /\ cache'[ActivityKey] =
                      [value |-> [t |-> "int", v |-> before + 1],
                       expiry |-> now + Secs(300)]
       ELSE ActivityKey \in DOMAIN cache'
               => /\ ActivityKey \in DOMAIN cache
                  /\ cache'[ActivityKey] = cache[ActivityKey]]_vars

\* Two answers 300 s apart with nothing between them: the second finds the
\* counter expired and stores 1 again.
C21_Witness ==
    /\ last_op.kind = "update_user_answer"
    /\ calls = 2
    /\ db_version = 2
    /\ now = Secs(300)
    /\ cache[ActivityKey].value = IntVal(1)

\* ---------------------------------------------------------------------
\* Quiz sessions
\* ---------------------------------------------------------------------
QuestionCoroutines(S) == {co \in S : co.kind \in {"intro", "send_poll"}}

\* C22: a group has at most one quiz session: no step replaces the session
\* of a group by another one, and start_quiz_in_group called (by /quiz or
\* by the daily quiz job) for a group that has a session leaves every
\* session as it is (questions, current_question, participants), stores no
\* poll, schedules nothing and sends neither an introduction nor a poll.
C22_StartKeepsTheSession ==
    [][ /\ \A g \in DOMAIN quiz_sessions \cap DOMAIN quiz_sessions' :
              quiz_sessions'[g].session_id = quiz_sessions[g].session_id
        /\ \A g \in DOMAIN quiz_sessions :
              (quiz_log'.last.kind \in {"start", "start_refused"}
               /\ quiz_log'.last.group = g)
              => /\ quiz_sessions' = quiz_sessions
                 /\ active_polls' = active_polls
                 /\ tasks' = tasks
                 /\ quiz_log'.polls = quiz_log.polls
                 /\ quiz_log'.started = quiz_log.started
                 /\ QuestionCoroutines(awaiting')
                        = QuestionCoroutines(awaiting) ]_vars

\* C22 witness: a start was refused for a group whose session, started by
\* /quiz, is at its second question while the daily job is under way.
C22_Witness ==
    /\ quiz_log.last.kind = "start_refused"
    /\ quiz_log.last.group \in DOMAIN quiz_sessions
    /\ quiz_sessions[quiz_log.last.group].current_question = 1
    /\ ~quiz_sessions[quiz_log.last.group].is_daily
    /\ DailyCoroutines # {}

\* C23: every session is eventually removed by end_quiz whatever the
\* Telegram calls do.  A session is removed only by a coroutine or a task
\* of its group, so the claim needs every session to have one: a suspended
\* start_quiz_in_group, send_quiz_question or end_quiz, or a sleeping
\* _delayed_next_question or _delayed_quiz_end.  This is the statement TLC
\* refutes: after a send that raised, the session stays with nothing left
\* to run for it.
C23_SessionHasAContinuation ==
    \A g \in DOMAIN quiz_sessions :
        \/ \E co \in awaiting :
               /\ co.group = g
               /\ co.kind \in {"intro", "send_poll", "members", "results"}
        \/ \E task \in tasks : task.group = g

\* C24: within one session the polls are sent with the question numbers
\* 1, 2, ... in this order, each number once and none beyond
\* total_questions, and while the session exists current_question is at
\* most total_questions - 1.
C24_QuestionsInOrder ==
    /\ \A sid \in DOMAIN quiz_log.sent :
          \A i \in 1..Len(quiz_log.sent[sid]) : quiz_log.sent[sid][i] = i
    /\ \A g \in DOMAIN quiz_sessions :
          LET session == quiz_sessions[g]
          IN  /\ session.current_question >= 0
              /\ session.current_question <= session.total_questions - 1
              /\ session.session_id \in DOMAIN quiz_log.sent
              /\ Len(quiz_log.sent[session.session_id])
                     <= session.total_questions

\* C24 witness: every poll of a session of two questions has been sent and
\* the session is at its last question.
C24_Witness ==
    \E g \in DOMAIN quiz_sessions :
        /\ quiz_sessions[g].total_questions = 2
        /\ quiz_sessions[g].current_question = 1
        /\ quiz_log.sent[quiz_sessions[g].session_id] = <<1, 2>>

\* The score of a user in a group, 0 when none is stored.
ScoreIn(scores, g, u) ==
    IF g \in DOMAIN scores /\ u \in DOMAIN scores[g] THEN scores[g][u] ELSE 0

NoStreak ==
    [current_streak |-> 0, best_streak |-> 0, last_correct_date |-> << >>,
     streak_broken_count |-> 0]

StreakOf(streaks, u) == IF u \in DOMAIN streaks THEN streaks[u] ELSE NoStreak

\* C26: after every update_user_streak call every stored streak has
\* best_streak >= current_streak >= 0; the call lowers no best_streak, and
\* for an incorrect answer it sets the user's current_streak to 0 and adds
\* 1 to streak_broken_count exactly when current_streak was above 0 (a
\* correct answer leaves streak_broken_count alone).
C26_StreakBounds ==
    [][ (calls' = calls + 1 /\ last_op'.kind = "update_user_streak") =>
          LET u == last_op'.user_id
              old == StreakOf(user_streaks, u)
              new == StreakOf(user_streaks', u)
          IN  /\ \A v \in DOMAIN user_streaks' :
                    /\ user_streaks'[v].current_streak >= 0
                    /\ user_streaks'[v].best_streak
                           >= user_streaks'[v].current_streak
                    /\ user_streaks'[v].best_streak
                           >= StreakOf(user_streaks, v).best_streak
              /\ ~last_op'.is_correct =>
                    /\ new.current_streak = 0
                    /\ new.streak_broken_count =
                           old.streak_broken_count
                           + (IF old.current_streak > 0 THEN 1 ELSE 0)
              /\ last_op'.is_correct =>
                    new.streak_broken_count = old.streak_broken_count
      ]_vars

\* C26 witness: a user whose streak of two days was broken by an incorrect
\* answer keeps the best streak of 2.
C26_Witness ==
    /\ last_op.kind = "update_user_streak"
    /\ ~last_op.is_correct
    /\ last_op.user_id \in DOMAIN user_streaks
    /\ user_streaks[last_op.user_id].current_streak = 0
    /\ user_streaks[last_op.user_id].best_streak = 2
    /\ user_streaks[last_op.user_id].streak_broken_count = 1

\* ---------------------------------------------------------------------
\* Recent questions
\* ---------------------------------------------------------------------
\* The recent list of a theme as the cache gives it at time t: empty when
\* the key is absent or expired.
RecentList(c, theme, t) ==
    IF RecentKey(theme) \in DOMAIN c /\ t < c[RecentKey(theme)].expiry
    THEN c[RecentKey(theme)].value.v
    ELSE << >>

\* C27: after a get_random_question call with avoid_recent that returns a
\* question, the cached recent list of the theme is the list of before the
\* call followed by the returned question, cut to its last 10 entries; and
\* when the theme has more than 5 questions of which one is not in the
\* list of before the call, the returned question is not in that list.
C27_RecentQuestions ==
    [][ \A th \in DOMAIN ThemeQuestions, q \in QuestionTexts :
          (ThemeQuestions[th] # << >> /\ GetRandomQuestion(th, TRUE, q)) =>
            LET before == RecentList(cache, th, now)
                full == Append(before, q)
                n == Len(full)
            IN  /\ RecentKey(th) \in DOMAIN cache'
                /\ Len(cache'[RecentKey(th)].value.v) <= 10
                /\ cache'[RecentKey(th)].value.v =
                       SubSeq(full, IF n > 10 THEN n - 9 ELSE 1, n)
                /\ ( /\ Len(ThemeQuestions[th]) > 5
                     /\ \E x \in Range(ThemeQuestions[th]) :
                            x \notin Range(before) )
                   => q \notin Range(before)
      ]_vars

\* C27 witness: a call found ten recent questions of a theme of six
\* questions, appended the question it returned and dropped the oldest.
C27_Witness ==
    LET key == RecentKey("histoire_geographie")
    IN  /\ key \in DOMAIN cache
        /\ key \in DOMAIN cache_writes
        /\ cache_writes[key].replaced # << >>
        /\ Len(cache_writes[key].replaced[1].value.v) = 10
        /\ Len(cache[key].value.v) = 10
        /\ cache_writes[key].at < cache_writes[key].replaced[1].expiry
        /\ SubSeq(cache[key].value.v, 1, 9)
               = SubSeq(cache_writes[key].replaced[1].value.v, 2, 10)

\* ---------------------------------------------------------------------
\* Challenges
\* ---------------------------------------------------------------------
ChallengeMoves ==
    {<<"pending", "accepted">>, <<"pending", "expired">>,
     <<"accepted", "completed">>}

QuestionsAnswered(results, c, u) ==
    IF <<c, u>> \in DOMAIN results THEN results[<<c, u>>].questions_answered
    ELSE 0

TargetQuestions(row) ==
    IF row.parameters = << >> THEN 10 ELSE row.parameters[1]

\* C28: no challenge is deleted, a new one is pending, and a status only
\* moves pending -> accepted, pending -> expired or accepted -> completed
\* (completed and expired never change).  accept_challenge returns True
\* only for the challenged user on a pending challenge whose expiry time
\* is not passed, and a challenge that becomes completed was accepted and
\* both its participants have answered at least target_questions
\* questions.
C28_ChallengeStatusMoves ==
    [][ /\ DOMAIN user_challenges \subseteq DOMAIN user_challenges'
        /\ \A c \in DOMAIN user_challenges' \ DOMAIN user_challenges :
              user_challenges'[c].status = "pending"
        /\ \A c \in DOMAIN user_challenges :
              LET old == user_challenges[c]
                  new == user_challenges'[c]
              IN  /\ new.status # old.status
                     => <<old.status, new.status>> \in ChallengeMoves
                  /\ (new.status = "completed" /\ old.status # "completed")
                     => /\ old.status = "accepted"
                        /\ QuestionsAnswered(challenge_results', c,
                                              old.challenger_id)
                               >= TargetQuestions(old)
                        /\ QuestionsAnswered(challenge_results', c,
                                              old.challenged_id)
                               >= TargetQuestions(old)
        /\ ( /\ challenge_log'.kind = "accept_challenge"
             /\ challenge_log'.ret = TRUE
             /\ calls' = calls + 1 )
           => LET c == challenge_log'.challenge_id
              IN  /\ c \in DOMAIN user_challenges
                  /\ user_challenges[c].challenged_id
                         = challenge_log'.user_id
                  /\ user_challenges[c].status = "pending"
                  /\ now <= Secs(user_challenges[c].expires_at.seconds)
                  /\ user_challenges'[c].status = "accepted"
      ]_vars

\* C28 witness: a challenge accepted by the challenged user is completed,
\* both users having answered one question.
C28_Witness ==
    \E c \in DOMAIN user_challenges :
        /\ user_challenges[c].status = "completed"
        /\ QuestionsAnswered(challenge_results, c,
                              user_challenges[c].challenger_id) >= 1
        /\ QuestionsAnswered(challenge_results, c,
                              user_challenges[c].challenged_id) >= 1

\* ---------------------------------------------------------------------
\* Retries
\* ---------------------------------------------------------------------
\* C29: a wrapped function is never invoked again after an attempt that
\* raised BadRequest: the attempt that raised it is the last invocation of
\* the call.  This is the statement TLC refutes: BadRequest is a
\* NetworkError and is handled by the clause that retries.
C29_NoRetryAfterBadRequest ==
    \A i \in 1..Len(retry_call.outcomes) :
        retry_call.outcomes[i] = "BadRequest" => retry_call.invocations = i

\* ---------------------------------------------------------------------
\* Message buffer
\* ---------------------------------------------------------------------
BufferIds(buffer) == [i \in 1..Len(buffer) |-> buffer[i].id]

\* The buffer as json.dump writes it.
BufferDicts(buffer) == [i \in 1..Len(buffer) |-> MessageDict(buffer[i])]

FailedSends(log, id) ==
    log.attempts[id] - (IF id \in log.sent THEN 1 ELSE 0)

\* The message is one the pass that just ended had to take out.
C30_Leaves(m) ==
    \/ m.id \in net_log'.sent
    \/ FailedSends(net_log', m.id) >= 5
    \/ m.id \in net_log'.too_old

C30_Stays(m) == ~C30_Leaves(m)

\* The dicts of the messages, each with its failed sends as retry_count.
C30_Counted(buffer) ==
    [i \in 1..Len(buffer) |->
        [MessageDict(buffer[i]) EXCEPT
            !.retry_count = FailedSends(net_log', buffer[i].id)]]

====
